---- MODULE Spec2Model ----
(***************************************************************************)
(* Verification model of the hr-medbot backend core:                       *)
(*   - GoldenChunker        (application/insertion/chunkers)               *)
(*   - NeoInserter.insert   (application/insertion/neo_inserter.py)        *)
(*   - ChatHistory / ChatSystem (application/chatsystem)                   *)
(*   - AugmentedRetriever   (application/retrieval)                        *)
(* Texts are sequences of one-character strings; sizes are len(text).      *)
(***************************************************************************)
EXTENDS Integers, Sequences, FiniteSets, Bags, TLC

\* ------------------------------------------------------------------------
\* Bounds of the model
\* ------------------------------------------------------------------------
MaxLen == 6
MaxSize == 5

\* ------------------------------------------------------------------------
\* Generic helpers
\* ------------------------------------------------------------------------
NL == "\n"
Hash == "#"
Dash == "-"
WS == {" ", NL}

SetMax(S) == CHOOSE x \in S : \A y \in S : y <= x
SetMin(S) == CHOOSE x \in S : \A y \in S : x <= y

RECURSIVE Concat(_)
Concat(ss) == IF ss = <<>> THEN <<>> ELSE Head(ss) \o Concat(Tail(ss))

\* first index >= p whose character is not in S (Len(t)+1 when none)
RECURSIVE RunEnd(_, _, _)
RunEnd(t, p, S) == IF p <= Len(t) /\ t[p] \in S THEN RunEnd(t, p + 1, S) ELSE p

\* index of the first newline at or after p (Len(t)+1 when none)
RECURSIVE LineEnd(_, _)
LineEnd(t, p) == IF p <= Len(t) /\ t[p] # NL THEN LineEnd(t, p + 1) ELSE p

\* "^" under re.MULTILINE
AtLineStart(t, p) == p = 1 \/ t[p - 1] = NL

\* ------------------------------------------------------------------------
\* GoldenChunker
\* ------------------------------------------------------------------------
\* GoldenChunker.__init__: the configurations the constructor accepts
ValidConfig(c) ==
    /\ c.max_size > 0
    /\ c.chunk_size > 0
    /\ c.min_size >= 0
    /\ c.min_size <= c.max_size
    /\ c.chunk_size <= c.max_size

\* SECTION_PATTERN = ^\s*---+\s*$ (MULTILINE), the trailing \s*$ : q is where the
\* dashes end and r where the whitespace after them ends; the match ends at the
\* last position of q..r that is an end of line
SectionTailEnd(t, q, r) ==
    LET ends == {k \in q..r : k = Len(t) + 1 \/ (k <= Len(t) /\ t[k] = NL)}
    IN  IF ends = {} THEN 0 ELSE SetMax(ends)

\* SECTION_PATTERN, the ---+ part: d is where the dashes start, q where they end
SectionDashEnd(t, d, q) == IF q - d < 3 THEN 0 ELSE SectionTailEnd(t, q, RunEnd(t, q, WS))

\* SECTION_PATTERN, the leading \s* : d is where the leading whitespace ends
SectionDashes(t, d) == SectionDashEnd(t, d, RunEnd(t, d, {Dash}))

\* SECTION_PATTERN: end (exclusive) of the match that starts at p, 0 when there is none
SectionMatchEnd(t, p) == IF AtLineStart(t, p) THEN SectionDashes(t, RunEnd(t, p, WS)) ELSE 0

\* re.split(SECTION_PATTERN, text): s = start of the current piece, p = scan
\* position, e = end of the match at p (0 when none)
RECURSIVE SectionSplit(_, _, _)
RECURSIVE SectionSplitAt(_, _, _, _)
SectionSplitAt(t, s, p, e) ==
    IF e = 0 THEN SectionSplit(t, s, p + 1)
    ELSE << SubSeq(t, s, p - 1) >> \o SectionSplit(t, e, e)

SectionSplit(t, s, p) ==
    IF p > Len(t) THEN << SubSeq(t, s, Len(t)) >>
    ELSE SectionSplitAt(t, s, p, SectionMatchEnd(t, p))

\* GoldenChunker._split_by_section: empty parts are dropped
split_by_section(t) == SelectSeq(SectionSplit(t, 1, 1), LAMBDA part : part # <<>>)

\* ^(#{level})\s+.*$ (MULTILINE): end (exclusive) of the match starting at p, 0 when none
HeadingMatchEnd(t, p, level) ==
    IF /\ AtLineStart(t, p)
       /\ p + level <= Len(t)
       /\ \A k \in p..(p + level - 1) : t[k] = Hash
       /\ t[p + level] \in WS
    THEN LineEnd(t, RunEnd(t, p + level, WS))
    ELSE 0

\* starts of the non-overlapping matches found by pattern.finditer(text);
\* e = end of the match at p (0 when none)
RECURSIVE HeadingStarts(_, _, _)
RECURSIVE HeadingStartsAt(_, _, _, _)
HeadingStartsAt(t, p, level, e) ==
    IF e = 0 THEN HeadingStarts(t, p + 1, level)
    ELSE <<p>> \o HeadingStarts(t, e, level)

HeadingStarts(t, p, level) ==
    IF p > Len(t) THEN <<>>
    ELSE HeadingStartsAt(t, p, level, HeadingMatchEnd(t, p, level))

\* str.strip("\n")
RECURSIVE StripNL(_)
StripNL(s) ==
    IF s = <<>> THEN s
    ELSE IF Head(s) = NL THEN StripNL(Tail(s))
    ELSE IF s[Len(s)] = NL THEN StripNL(SubSeq(s, 1, Len(s) - 1))
    ELSE s

\* chunks.insert(0, preamble) when the preamble is not empty
WithPreamble(preamble, slices) == IF preamble # <<>> THEN <<preamble>> \o slices ELSE slices

\* the slices of _split_by_heading_level: from each heading to the next one (or EOF)
HeadingSlices(t, starts) ==
    IF starts = <<>> THEN <<t>>
    ELSE WithPreamble(StripNL(SubSeq(t, 1, starts[1] - 1)),
                      [i \in 1..Len(starts) |->
                          SubSeq(t, starts[i],
                                 IF i < Len(starts) THEN starts[i + 1] - 1 ELSE Len(t))])

\* GoldenChunker._split_by_heading_level
split_by_heading_level(t, level) == HeadingSlices(t, HeadingStarts(t, 1, level))

\* GoldenChunker._merge_small_chunks, bottom-up branch (merge_reversed = True)
RECURSIVE MergeBottomUp(_, _, _)
MergeBottomUp(c, merged, i) ==
    IF i <= 1 THEN merged
    ELSE IF /\ Len(merged[i]) < c.min_size
            /\ Len(merged[i - 1]) + Len(merged[i]) <= c.max_size
         THEN LET m2 == SubSeq(merged, 1, i - 2)
                        \o << merged[i - 1] \o merged[i] >>
                        \o SubSeq(merged, i + 1, Len(merged))
              IN  MergeBottomUp(c, m2, IF i < Len(m2) THEN i ELSE Len(m2))
         ELSE MergeBottomUp(c, merged, i - 1)

\* GoldenChunker._merge_small_chunks, top-down branch (merge_reversed = False)
RECURSIVE MergeTopDown(_, _, _)
MergeTopDown(c, merged, i) ==
    IF i >= Len(merged) THEN merged
    ELSE IF /\ Len(merged[i]) < c.min_size
            /\ Len(merged[i]) + Len(merged[i + 1]) <= c.max_size
         THEN MergeTopDown(c, SubSeq(merged, 1, i - 1)
                              \o << merged[i] \o merged[i + 1] >>
                              \o SubSeq(merged, i + 2, Len(merged)), i)
         ELSE MergeTopDown(c, merged, i + 1)

\* GoldenChunker._merge_small_chunks
merge_small_chunks(c, chunks) ==
    IF c.min_size = 0 \/ chunks = <<>> THEN chunks
    ELSE IF c.merge_reversed THEN MergeBottomUp(c, chunks, Len(chunks))
    ELSE MergeTopDown(c, chunks, 1)

\* header_match = re.match(r"^(?:#+\s+.*(?:\n|$))+", text): length of the matched
\* prefix. p = where the next heading line would start, h = where its #s end,
\* e = where that line ends
RECURSIVE HeaderPrefixEnd(_, _)
RECURSIVE HeaderPrefixHashes(_, _, _)
RECURSIVE HeaderPrefixLine(_, _)
HeaderPrefixLine(t, e) == IF e > Len(t) THEN Len(t) ELSE HeaderPrefixEnd(t, e + 1)

HeaderPrefixHashes(t, p, h) ==
    IF h = p \/ h > Len(t) \/ t[h] \notin WS THEN p - 1
    ELSE HeaderPrefixLine(t, LineEnd(t, RunEnd(t, h, WS)))

HeaderPrefixEnd(t, p) == HeaderPrefixHashes(t, p, RunEnd(t, p, {Hash}))

\* RecursiveCharacterTextSplitter(chunk_size = size, chunk_overlap = 0).split_text(body):
\* consecutive pieces of at most `size` characters (the library's length contract)
RECURSIVE split_text(_, _)
split_text(body, size) ==
    IF body = <<>> THEN <<>>
    ELSE IF Len(body) <= size THEN <<body>>
    ELSE << SubSeq(body, 1, size) >> \o split_text(SubSeq(body, size + 1, Len(body)), size)

\* [header_prefix + chunk for chunk in body_chunks]
PrefixEach(header_prefix, body_chunks) ==
    [i \in 1..Len(body_chunks) |-> header_prefix \o body_chunks[i]]

\* mutant of _fallback_split_with_headers: the splitter's target size is not
\* reduced by the length of the shared heading prefix
FallbackFullSize(c, t, plen) ==
    [raised |-> FALSE,
     chunks |-> PrefixEach(SubSeq(t, 1, plen),
                           split_text(SubSeq(t, plen + 1, Len(t)), c.chunk_size))]

\* _fallback_split_with_headers once the prefix length plen is known; the
\* splitter's constructor raises ValueError when its chunk_size is not positive
FallbackWithPrefix(c, t, plen) ==
    IF c.chunk_size - plen <= 0 THEN [raised |-> TRUE, chunks |-> <<>>]
    ELSE [raised |-> FALSE,
          chunks |-> PrefixEach(SubSeq(t, 1, plen),
                                split_text(SubSeq(t, plen + 1, Len(t)), c.chunk_size - plen))]

\* GoldenChunker._fallback_split_with_headers
fallback_split_with_headers(c, t) == FallbackWithPrefix(c, t, HeaderPrefixEnd(t, 1))

\* body of the piece loop of _split_recursively for one piece, given its sub_parts
SplitPiece(c, piece, sub_parts, acc) ==
    IF Len(piece) <= c.chunk_size
      THEN [chunks |-> Append(acc.chunks, piece), next_round |-> acc.next_round]
    ELSE IF Len(sub_parts) = 1
      THEN [chunks |-> acc.chunks, next_round |-> Append(acc.next_round, piece)]
    ELSE [chunks |-> acc.chunks \o SelectSeq(sub_parts, LAMBDA sub : Len(sub) <= c.chunk_size),
          next_round |-> acc.next_round \o SelectSeq(sub_parts, LAMBDA sub : Len(sub) > c.chunk_size)]

\* one pass of the level loop of _split_recursively over the pieces of `oversized`:
\* acc.chunks collects the pieces that fit, acc.next_round those forwarded
RECURSIVE SplitPieces(_, _, _, _)
SplitPieces(c, oversized, level, acc) ==
    IF oversized = <<>> THEN acc
    ELSE SplitPieces(c, Tail(oversized), level,
                     SplitPiece(c, Head(oversized),
                                split_by_heading_level(Head(oversized), level), acc))

\* the level loop of _split_recursively (for level in range(1, 7)), with the early
\* break; r = the outcome of the pass at `level`
RECURSIVE SplitLevels(_, _, _, _)
RECURSIVE SplitLevelDone(_, _, _)
SplitLevelDone(c, r, level) ==
    IF r.next_round = <<>> THEN r ELSE SplitLevels(c, r.next_round, r.chunks, level + 1)

SplitLevels(c, oversized, chunks, level) ==
    IF level > 6 THEN [chunks |-> chunks, next_round |-> oversized]
    ELSE SplitLevelDone(c, SplitPieces(c, oversized, level, [chunks |-> chunks, next_round |-> <<>>]),
                        level)

\* chunks.extend(...) with the result of a call that may have raised
Extend(acc, r) == [raised |-> r.raised, chunks |-> acc.chunks \o r.chunks]

\* mutant of NeedsFallback: every remainder over chunk_size goes to the fallback
NeedsFallbackOverChunkSize(c, remainder) == Len(remainder) > c.chunk_size

\* _split_recursively, line 138: if len(remainder) > self.max_size
NeedsFallback(c, remainder) == Len(remainder) > c.max_size

\* the fallback loop of _split_recursively over the remainders
RECURSIVE SplitRemainders(_, _, _)
SplitRemainders(c, oversized, acc) ==
    IF oversized = <<>> \/ acc.raised THEN acc
    ELSE SplitRemainders(c, Tail(oversized),
            IF NeedsFallback(c, Head(oversized))
              THEN Extend(acc, fallback_split_with_headers(c, Head(oversized)))
              ELSE [raised |-> FALSE, chunks |-> Append(acc.chunks, Head(oversized))])

\* _split_recursively after the level loop: merge, then the fallback loop
MergeAndFallback(c, r) ==
    SplitRemainders(c, r.next_round,
                    [raised |-> FALSE, chunks |-> merge_small_chunks(c, r.chunks)])

\* GoldenChunker._split_recursively
split_recursively(c, t) == MergeAndFallback(c, SplitLevels(c, <<t>>, <<>>, 1))

\* the section loop of GoldenChunker.chunk
RECURSIVE ChunkSections(_, _, _)
ChunkSections(c, sections, acc) ==
    IF sections = <<>> \/ acc.raised THEN acc
    ELSE ChunkSections(c, Tail(sections),
            IF Len(Head(sections)) <= c.chunk_size
              THEN [raised |-> FALSE, chunks |-> Append(acc.chunks, Head(sections))]
              ELSE Extend(acc, split_recursively(c, Head(sections))))

\* a call that raised returns nothing
Returned(r) == IF r.raised THEN [raised |-> TRUE, chunks |-> <<>>] ELSE r

\* GoldenChunker.chunk: [raised, chunks]; raised = the call ended in ValueError
chunk(c, t) ==
    Returned(ChunkSections(c, split_by_section(t), [raised |-> FALSE, chunks |-> <<>>]))

\* ------------------------------------------------------------------------
\* database.session_scope
\* ------------------------------------------------------------------------
\* mutant of session_scope: the scope commits in every case, also after an exception
session_scope_always_commit(write_enabled, raised, committed, pending) == pending

\* mutant of session_scope: a clean exit commits whatever write_enabled is
session_scope_commit_on_success(write_enabled, raised, committed, pending) ==
    IF raised THEN committed ELSE pending

\* session_scope: what the database holds when the scope is left. `committed` is
\* the database before the scope, `pending` the scope's flushed, uncommitted view.
\* An exception rolls back; a clean exit commits only when write_enabled (close()
\* discards what was not committed).
session_scope(write_enabled, raised, committed, pending) ==
    IF raised THEN committed
    ELSE IF write_enabled THEN pending
    ELSE committed

\* ------------------------------------------------------------------------
\* ChatHistory (history_manager.py). A history h is [messages, conversation];
\* the chat database d is [messages, conversation]. Contents are sequences of words.
\* Identifier 0 and the empty summary/title <<>> stand for None.
\* ------------------------------------------------------------------------
MaxEntries == 3
TokenThreshold == 3

NewConversation == [id |-> 0, title |-> <<>>, token_budgeting_summary |-> <<>>,
                    token_budgeting_message_id |-> 0]
NewHistory == [messages |-> <<>>, conversation |-> NewConversation]
EmptyChatDb == [messages |-> <<>>, conversation |-> NewConversation]

\* ChatHistory.add: the entry is appended with persisted = False
add(h, id, role, content, context) ==
    [h EXCEPT !.messages = Append(@, [id |-> id, role |-> role, content |-> content,
                                      context |-> context, persisted |-> FALSE,
                                      db_id |-> 0])]

\* the fallback of token_count: sum(len(m["content"].split()) for m in messages)
RECURSIVE WordCount(_)
WordCount(msgs) ==
    IF msgs = <<>> THEN 0 ELSE Len(Head(msgs).content) + WordCount(Tail(msgs))

\* Generator.count_conversation_tokens: the tokenizer service counts every word
\* and one token of chat markup per message
ServiceCount(msgs) == Len(msgs) + WordCount(msgs)

\* ChatHistory.token_count; up = the tokenizer service answers
token_count(msgs, up) == IF up THEN ServiceCount(msgs) ELSE WordCount(msgs)

Pending(msgs) == SelectSeq(msgs, LAMBDA m : ~m.persisted)
NumPending(msgs) == Len(Pending(msgs))
PendingUpTo(msgs, i) == Cardinality({j \in 1..i : ~msgs[j].persisted})

\* the loop of flush_to_db after k pending entries have been flushed: each is
\* marked persisted and given its db_id
MarkFlushed(msgs, k) ==
    [i \in 1..Len(msgs) |->
        IF ~msgs[i].persisted /\ PendingUpTo(msgs, i) <= k
          THEN [msgs[i] EXCEPT !.persisted = TRUE, !.db_id = msgs[i].id]
          ELSE msgs[i]]

\* the Message rows added by the loop of flush_to_db for the first k pending entries
FlushedRows(msgs, k) ==
    [i \in 1..k |-> [id |-> Pending(msgs)[i].id, role |-> Pending(msgs)[i].role,
                     content |-> Pending(msgs)[i].content,
                     context |-> Pending(msgs)[i].context]]

\* the Conversation object after the loop of flush_to_db: its id is populated by
\* the first flush, and the boundary marker is set when it was None and the
\* first transcript entry was flushed
FlushedConversation(h, k) ==
    [h.conversation EXCEPT
        !.id = IF @ = 0 THEN 1 ELSE @,
        !.token_budgeting_message_id =
            IF @ = 0 /\ k >= 1 /\ ~h.messages[1].persisted THEN h.messages[1].id ELSE @]

\* flush_to_db when its k-th message flush was the last statement to succeed:
\* ok = the commit succeeded; otherwise session_scope rolled back and the
\* exception leaves flush_to_db, the in-memory marks staying as they are
FlushUpTo(h, d, k, ok) ==
    [hist |-> [messages |-> MarkFlushed(h.messages, k),
               conversation |-> FlushedConversation(h, k)],
     db |-> session_scope(FALSE, ~ok,
                          IF ok THEN [messages |-> d.messages \o FlushedRows(h.messages, k),
                                      conversation |-> FlushedConversation(h, k)]
                                ELSE d,
                          d),
     raised |-> ~ok]

\* ChatHistory.flush_to_db; fail_at < 0: no statement raises; fail_at = k >= 0: the
\* statement after the k-th message flush raises (the commit when k = NumPending)
flush_to_db(h, d, fail_at) ==
    IF fail_at < 0 THEN FlushUpTo(h, d, NumPending(h.messages), TRUE)
    ELSE FlushUpTo(h, d, fail_at, FALSE)

\* mutant of the eviction loop: pop() in place of popleft()
RECURSIVE EvictNewest(_, _)
EvictNewest(msgs, ups) ==
    IF token_count(msgs, Head(ups)) > TokenThreshold /\ Len(msgs) > 1
      THEN EvictNewest(SubSeq(msgs, 1, Len(msgs) - 1), Tail(ups))
      ELSE msgs

\* mutant of the eviction loop: `if` in place of `while`
EvictOnce(msgs, ups) ==
    IF token_count(msgs, Head(ups)) > TokenThreshold /\ Len(msgs) > 1 THEN Tail(msgs)
    ELSE msgs

\* the eviction loop of maybe_summarise: popleft while over the threshold and
\* more than one entry is left. ups[i] tells whether the tokenizer service
\* answers the i-th token_count() call of the loop
RECURSIVE Evict(_, _)
Evict(msgs, ups) ==
    IF token_count(msgs, Head(ups)) > TokenThreshold /\ Len(msgs) > 1
      THEN Evict(Tail(msgs), Tail(ups))
      ELSE msgs

\* the tokenizer's answer to the token_count() call that ended the eviction loop
RECURSIVE EvictUp(_, _)
EvictUp(msgs, ups) ==
    IF token_count(msgs, Head(ups)) > TokenThreshold /\ Len(msgs) > 1
      THEN EvictUp(Tail(msgs), Tail(ups))
      ELSE Head(ups)

\* maybe_summarise, lines 114-118: the summary and the cutoff are recorded
Recorded(msgs, conversation, summary) ==
    [messages |-> msgs,
     conversation |-> [conversation EXCEPT !.token_budgeting_summary = summary,
                                           !.token_budgeting_message_id = msgs[1].db_id]]

\* a result of a history call: the history, the database, whether the call
\* raised, and whether the tokenizer answered its last token_count()
Result(h, d, raised, up) == [hist |-> h, db |-> d, raised |-> raised, up |-> up]
WithUp(r, up) == Result(r.hist, r.db, r.raised, up)

\* maybe_summarise after its first flush_to_db returned r
AfterFirstFlush(r, o) ==
    IF r.raised THEN WithUp(r, o.up)
    ELSE WithUp(flush_to_db(Recorded(Evict(r.hist.messages, o.ups), r.hist.conversation,
                                     o.summary),
                            r.db, o.fail2),
                EvictUp(r.hist.messages, o.ups))

\* ChatHistory.maybe_summarise. o is what its callees do: up and ups (the
\* tokenizer at the first token_count() and at those of the loop), gen_ok (the
\* generation service answers o.summary), fail1 and fail2 (the two flush_to_db)
maybe_summarise(h, d, o) ==
    IF token_count(h.messages, o.up) < TokenThreshold THEN Result(h, d, FALSE, o.up)
    ELSE IF ~o.gen_ok THEN Result(h, d, TRUE, o.up)
    ELSE AfterFirstFlush(flush_to_db(h, d, o.fail1), o)

\* _load_existing, lines 170-177: the transcript entry built from a Message
\* row; it has a db_id and no id
LoadedEntry(row) ==
    [id |-> 0, role |-> row.role, content |-> row.content, context |-> row.context,
     persisted |-> TRUE, db_id |-> row.id]

\* _load_existing, lines 187-193: the synthetic entry for the stored summary,
\* "(earlier summary) " followed by the summary's words; it has no db_id and no id
SummaryEntry(summary) ==
    [id |-> 0, role |-> "system",
     content |-> <<"(earlier", "summary)">> \o [i \in 1..Len(summary) |-> "w"],
     context |-> {"token_budget"}, persisted |-> TRUE, db_id |-> 0]

\* reversed(reverse_acc), and order_by(created_at.desc()) over rows kept in
\* the order of their creation
Reversed(s) == [i \in 1..Len(s) |-> s[Len(s) + 1 - i]]

\* the loop of _load_existing, lines 169-183, over the rows latest first: acc2 is
\* reverse_acc with the row appended
RECURSIVE LoadRows(_, _, _, _)
RECURSIVE LoadRow(_, _, _, _, _)
LoadRow(rows, acc, acc2, marker, up) ==
    IF token_count(acc2, up) > TokenThreshold THEN acc
    ELSE IF marker # 0 /\ Head(rows).id = marker THEN acc2
    ELSE LoadRows(Tail(rows), acc2, marker, up)

LoadRows(rows, acc, marker, up) ==
    IF rows = <<>> THEN acc
    ELSE LoadRow(rows, acc, Append(acc, LoadedEntry(Head(rows))), marker, up)

\* _load_existing, lines 167-199: the transcript before the final guard; up =
\* the tokenizer service answers the _tokens_in() calls
Loaded(d, up) ==
    (IF d.conversation.token_budgeting_summary # <<>>
       THEN << SummaryEntry(d.conversation.token_budgeting_summary) >> ELSE <<>>)
    \o Reversed(LoadRows(Reversed(d.messages), <<>>,
                         d.conversation.token_budgeting_message_id, up))

\* _load_existing, lines 202-203: the final guard over the assembled transcript
LoadGuard(msgs, ups) == IF msgs = <<>> THEN msgs ELSE Evict(msgs, ups)

\* ------------------------------------------------------------------------
\* ChatSystem (orchestrator.py). A turn t is [user_text, user_msg_id,
\* assistant_msg_id, has_chunks]; a message context is the set of its keys.
\* ------------------------------------------------------------------------
MaxTurns == 2
MaxFragments == 2

UserContext == {"rewritten_query"}
AssistantContext(has_chunks) ==
    (IF has_chunks THEN {"chunks"} ELSE {}) \cup {"timings", "rewritten_query", "token_usage"}

\* mutant of WithTurn: msg_id is not passed on, so that add draws fresh identifiers
WithTurnFreshIds(h, t, reply) ==
    add(add(h, t.user_msg_id + 2 * MaxTurns, "user", t.user_text, UserContext),
        t.assistant_msg_id + 2 * MaxTurns, "assistant", reply, AssistantContext(t.has_chunks))

\* _finalise_turn, lines 307-332: the two entries of the turn are appended
WithTurn(h, t, reply) ==
    add(add(h, t.user_msg_id, "user", t.user_text, UserContext),
        t.assistant_msg_id, "assistant", reply, AssistantContext(t.has_chunks))

\* _finalise_turn, line 345 (the transcript is not empty after the two adds)
NeedsTitle(title_generated, reply) == ~title_generated /\ reply # <<>>

\* the generation service's title, named by the turn it was generated from
TitleOf(t) == <<"title", t.user_msg_id>>

WithTitle(h, t, needed) ==
    IF needed THEN [h EXCEPT !.conversation.title = TitleOf(t)] ELSE h

Finalised(r, title_generated) ==
    [hist |-> r.hist, db |-> r.db, raised |-> r.raised, up |-> r.up,
     title_generated |-> title_generated]

\* _finalise_turn, lines 357-359, on the history h with the turn and its title
SummariseTurn(h, d, aborted, title_generated, o) ==
    IF aborted THEN Finalised(Result(h, d, FALSE, o.up), title_generated)
    ELSE Finalised(maybe_summarise(h, d, o), title_generated)

\* ChatSystem._finalise_turn; title_ok = generate_title returns, o = what the
\* callees of maybe_summarise do
finalise_turn(h, d, t, reply, aborted, title_generated, title_ok, o) ==
    IF NeedsTitle(title_generated, reply) /\ ~title_ok
      THEN Finalised(Result(WithTurn(h, t, reply), d, TRUE, o.up), title_generated)
      ELSE SummariseTurn(WithTitle(WithTurn(h, t, reply), t, NeedsTitle(title_generated, reply)),
                         d, aborted, title_generated \/ reply # <<>>, o)

\* ConversationUtils.rewrite(query, history_openai); answer = what the generation
\* service returns when it is asked, already stripped of its wrapper
rewrite_always_asks(query, history_openai, answer) == [result |-> answer, invoked |-> TRUE]

rewrite(query, history_openai, answer) ==
    IF history_openai = <<>> THEN [result |-> query, invoked |-> FALSE]
    ELSE [result |-> answer, invoked |-> TRUE]

\* receive, lines 131-135: rewritten_query
RewrittenQuery(user_text, messages, answer) ==
    IF messages # <<>> THEN rewrite(user_text, messages, answer)
    ELSE [result |-> user_text, invoked |-> FALSE]

\* receive, lines 131-146: r = the rewrite, failed_at = the step that raised
Prelude(user_text, messages, r, failed_at) ==
    [query |-> user_text, given |-> Len(messages), invoked |-> r.invoked,
     result |-> IF failed_at = "rewrite" THEN <<>> ELSE r.result, failed_at |-> failed_at]

\* mutant of receive_raised: the user entry is appended before the reply is generated
receive_raised_after_user_entry(h, d, up, title_generated, t, p) ==
    IF p.failed_at = "generation"
      THEN Finalised(Result(add(h, t.user_msg_id, "user", t.user_text, UserContext), d, TRUE, up),
                     title_generated)
      ELSE Finalised(Result(h, d, TRUE, up), title_generated)

\* receive left by an exception of the rewrite, the retrieval or generator.invoke
\* (line 207): _finalise_turn has not been reached
receive_raised(h, d, up, title_generated, t, p) ==
    Finalised(Result(h, d, TRUE, up), title_generated)

\* ------------------------------------------------------------------------
\* AugmentedRetriever (augmented_retriever.py) and Reranker (reranker.py).
\* A Python dict is a sequence of [k, v] in insertion order. Distances and
\* similarities are in units of 1/Unit, alpha in tenths, fused scores in
\* units of 1/(10 * Unit).
\* ------------------------------------------------------------------------
MaxBig == 2
MaxRows == 3
MaxDistance == 2
MaxScore == 2
RerankBatchSize == 2
Unit == 2

DictHas(d, k) == \E i \in 1..Len(d) : d[i].k = k
DictGet(d, k, default) ==
    IF DictHas(d, k) THEN d[CHOOSE i \in 1..Len(d) : d[i].k = k].v ELSE default
DictSet(d, k, v) ==
    IF DictHas(d, k)
      THEN [i \in 1..Len(d) |-> IF d[i].k = k THEN [k |-> k, v |-> v] ELSE d[i]]
      ELSE Append(d, [k |-> k, v |-> v])

\* mutant of the query of _get_submodel_similarity: no filter on File.status
EligibleOfAnyStatus(rows, status, db_model) == { r \in rows : r.model = db_model }

\* the rows the query of _get_submodel_similarity can return: those of db_model
\* whose file is OK, nearest first (equal distances in any order), fetch_limit
\* at most
Eligible(rows, status, db_model) ==
    { r \in rows : r.model = db_model /\ status[r.big_chunk_id] = "ok" }
Ordered(S) ==
    { q \in [1..Cardinality(S) -> S] :
        /\ \A i, j \in 1..Cardinality(S) : i < j => q[i] # q[j] /\ q[i].distance <= q[j].distance }
Fetched(rows, status, db_model, fetch_limit) ==
    { SubSeq(q, 1, SetMin({fetch_limit, Len(q)})) : q \in Ordered(Eligible(rows, status, db_model)) }

\* the loop of _get_submodel_similarity: scores[row.big_chunk_id] = 1 - row.distance
RECURSIVE SimilarityLoop(_, _)
SimilarityLoop(results, scores) ==
    IF results = <<>> THEN scores
    ELSE SimilarityLoop(Tail(results),
                        DictSet(scores, Head(results).big_chunk_id, Unit - Head(results).distance))

get_submodel_similarity(results) == SimilarityLoop(results, <<>>)

\* mutant of the loops of _merge_scores: `=` in place of `+=`
RECURSIVE AssignWeighted(_, _, _)
AssignWeighted(combined, scores, weight) ==
    IF scores = <<>> THEN combined
    ELSE AssignWeighted(DictSet(combined, Head(scores).k, weight * Head(scores).v),
                        Tail(scores), weight)

\* one loop of _merge_scores: combined_scores[big_chunk_id] += weight * score
RECURSIVE AddWeighted(_, _, _)
AddWeighted(combined, scores, weight) ==
    IF scores = <<>> THEN combined
    ELSE AddWeighted(DictSet(combined, Head(scores).k,
                             DictGet(combined, Head(scores).k, 0) + weight * Head(scores).v),
                     Tail(scores), weight)

merge_scores(alpha, summary_scores, small_chunk_scores) ==
    AddWeighted(AddWeighted(<<>>, small_chunk_scores, alpha), summary_scores, 10 - alpha)

\* sorted(..., key = v, reverse=True): stable, by insertion
Above(sorted, x) == Cardinality({ i \in 1..Len(sorted) : sorted[i].v >= x.v })
InsertAt(sorted, x, p) == SubSeq(sorted, 1, p) \o << x >> \o SubSeq(sorted, p + 1, Len(sorted))
RECURSIVE SortInto(_, _)
SortInto(sorted, rest) ==
    IF rest = <<>> THEN sorted
    ELSE SortInto(InsertAt(sorted, Head(rest), Above(sorted, Head(rest))), Tail(rest))
SortedDescending(pairs) == SortInto(<<>>, pairs)

Keys(pairs) == [i \in 1..Len(pairs) |-> pairs[i].k]
Take(q, n) == SubSeq(q, 1, SetMin({n, Len(q)}))

\* _get_top_big_chunks: the ids of the prefetch_limit best fused scores (every
\* id has its BigChunk row)
get_top_big_chunks(big_chunk_scores, prefetch_limit) ==
    Keys(Take(SortedDescending(big_chunk_scores), prefetch_limit))

\* Reranker._rerank: (batch_idx + c['index'], c['relevance_score']) for the
\* results of one response of the rerank service
Rebased(response, batch_idx) ==
    [i \in 1..Len(response) |->
        [k |-> batch_idx + response[i].index, v |-> response[i].relevance_score]]

\* the loop of Reranker.rerank over the batches' responses
RECURSIVE RerankBatches(_, _, _)
RerankBatches(responses, batch_idx, batch_size) ==
    IF responses = <<>> THEN <<>>
    ELSE Rebased(Head(responses), batch_idx)
           \o RerankBatches(Tail(responses), batch_idx + batch_size, batch_size)

\* sorted(results, key=lambda x: x[0]): stable, by insertion
Below(sorted, x) == Cardinality({ i \in 1..Len(sorted) : sorted[i].k <= x.k })
RECURSIVE SortByIndexInto(_, _)
SortByIndexInto(sorted, rest) ==
    IF rest = <<>> THEN sorted
    ELSE SortByIndexInto(InsertAt(sorted, Head(rest), Below(sorted, Head(rest))), Tail(rest))

\* mutant of Reranker.rerank: the results are left in the order of the responses
rerank_in_response_order(responses, batch_size) == RerankBatches(responses, 0, batch_size)

\* Reranker.rerank
rerank(responses, batch_size) == SortByIndexInto(<<>>, RerankBatches(responses, 0, batch_size))

\* _rerank_chunks_with_scores: zip(big_chunks, scores), sorted by score descending
Zipped(big_chunks, rerank_scores) ==
    [i \in 1..SetMin({Len(big_chunks), Len(rerank_scores)}) |->
        [k |-> big_chunks[i], v |-> rerank_scores[i].v]]
rerank_chunks_with_scores(big_chunks, rerank_scores) ==
    SortedDescending(Zipped(big_chunks, rerank_scores))

\* the loop of retrieve, lines 40-54, over the reranked [chunk, score] pairs
Results(reranked, limit, summary_scores, small_chunk_scores, big_chunk_scores) ==
    [i \in 1..SetMin({limit, Len(reranked)}) |->
        [chunk |-> reranked[i].k,
         summary_score |-> DictGet(summary_scores, reranked[i].k, 0),
         small_chunk_score |-> DictGet(small_chunk_scores, reranked[i].k, 0),
         combined_score |-> DictGet(big_chunk_scores, reranked[i].k, 0),
         rerank_score |-> reranked[i].v]]

\* ------------------------------------------------------------------------
\* State
\* ------------------------------------------------------------------------
VARIABLES
    text,          \* the markdown text handed to GoldenChunker.chunk / NeoInserter.insert
    chunker,       \* the GoldenChunker configuration of the call
    chunk_out,     \* what chunk returned: [raised, chunks]
    chunk_pc,      \* "input" while the text is typed, "done" after the call
    ins_pc,        \* position of NeoInserter.insert
    enable_summaries, \* NeoInserter.enable_summaries
    kb,            \* knowledge base as committed: [file, rows]
    kb_sess,       \* the open session's view of the knowledge base
    big_chunk_texts, \* insert's big_chunk_texts
    work_items,    \* insert's work_items (their texts are the embed payload)
    embeddings,    \* the vectors received so far
    ins_idx,       \* loop index of the current step of insert
    ins_exc,       \* the exception caught by insert's except clause
    ins_failed_at, \* the step that raised it
    ins_raised,    \* the exception insert raised to its caller
    ins_result,    \* what insert returned
    history,          \* ChatHistory: [messages, conversation] in memory
    chat_db,          \* the Message store and the Conversation row, committed
    tokenizer_up,     \* whether the tokenizer answered the latest token_count()
    next_msg_id,      \* the next fresh message identifier (uuid4)
    chat_call,        \* the latest call made on the chat objects
    chat_raised,      \* the exception that call delivered to its caller
    persistence,      \* ChatSystem.persistence
    title_generated,  \* ChatSystem._title_generated
    chat_pc,          \* the generator of _stream_response: idle, streaming, ...
    turn,             \* the arguments of the latest _stream_response
    token_acc,        \* its token_acc
    chat_returned,    \* the identifiers the latest call returned to its caller
    utils_call,       \* the rewrite made by the latest call: the text and the transcript length
                      \* given, whether the generation service was invoked, the query that
                      \* resulted, and the step of receive that raised
    index_rows,       \* the embedded rows: [model, big_chunk_id, distance to the query]
    doc_status,       \* File.status of each big chunk's file
    retriever,        \* AugmentedRetriever: alpha, limit, prefetch_limit, fetch limits
    ret_pc,           \* position of retrieve
    summary_scores,   \* retrieve's summary_scores
    small_chunk_scores, \* retrieve's small_chunk_scores
    big_chunk_scores, \* retrieve's big_chunk_scores
    top_big_chunks,   \* retrieve's top_big_chunks, by id
    rerank_responses, \* what the rerank service answered, batch by batch
    results,          \* what retrieve returned
    merge_in,         \* the chunks given to _merge_small_chunks
    merge_cfg,        \* the GoldenChunker whose _merge_small_chunks runs
    merged,           \* its local list merged
    merge_i,          \* its index i, counted from 1
    merge_parts,      \* how many given chunks each element of merged is made of
    merge_pc,         \* position of _merge_small_chunks: input, loop, done
    sess_pc,          \* a session_scope: outside, body, left
    sess_write_enabled, \* its argument write_enabled
    sess_db,          \* the rows the database holds, committed
    sess_entry,       \* the rows the database held when the scope was entered
    sess_written,     \* the rows the body added and flushed in the scope
    sess_body_committed, \* how many of them the body committed by its own session.commit()
    sess_raised,      \* the exception that left the scope
    sess_closed,      \* session.close() was called
    prod_pc,          \* producer: receive, new_await, stop_await, ended
    generation_task,  \* producer's generation_task: 0 = None, else the task's number
    gen_tasks,        \* the tasks created for run_generation: [state, cancel_requested, wavs]
    out_q,            \* out_q: << task, "wav" >> chunks and << task, "" >> sentinels (task 0 = producer)
    voice_inputs,     \* how many messages the websocket has delivered
    queue,            \* upload.py: the Deque of queued job ids
    in_progress,      \* the set stored under IN_PROGRESS_KEY
    queue_lock,       \* whether queue_lock is held
    jobs,             \* the status stored under job:<id>, by job id
    started,          \* how many threads were started for each job id
    uploads,          \* how many upload requests were received
    kb_threads,       \* the bag of request handlers and worker threads still at work:
                      \* [kind, pc, job_id, new_status, in_prog]
    otp,              \* password_reset.py: the PIN stored under otp:<identifier>
    tries,            \* the counter stored under tries:<identifier>
    cooldown,         \* whether cooldown:<identifier> is set
    loop_busy,        \* the event loop is inside a handler
    reset_handlers,   \* the bag of /reset handlers not yet finished: [pc, pin, attempts]
    resets,           \* how many /reset requests were received
    pin_requests,     \* how many /request requests were received
    compared,         \* how many /reset requests were compared against the stored PIN
    last_reset        \* the status the latest step answered a /reset request with (0 = none)

chunker_vars == << text, chunker, chunk_out, chunk_pc >>
inserter_vars == << ins_pc, enable_summaries, kb, kb_sess, big_chunk_texts, work_items,
                    embeddings, ins_idx, ins_exc, ins_failed_at, ins_raised, ins_result >>

history_vars == << history, chat_db, tokenizer_up, next_msg_id, chat_call, chat_raised >>
orchestrator_vars == << persistence, title_generated, chat_pc, turn, token_acc, utils_call,
                       chat_returned >>
chat_vars == << history_vars, orchestrator_vars >>
retriever_vars == << index_rows, doc_status, retriever, ret_pc, summary_scores,
                     small_chunk_scores, big_chunk_scores, top_big_chunks, rerank_responses,
                     results >>
voice_vars == << prod_pc, generation_task, gen_tasks, out_q, voice_inputs >>
session_vars == << sess_pc, sess_write_enabled, sess_db, sess_entry, sess_written,
                   sess_body_committed, sess_raised, sess_closed >>
upload_vars == << queue, in_progress, queue_lock, jobs, started, uploads, kb_threads >>
reset_vars == << otp, tries, cooldown, loop_busy, reset_handlers, resets, pin_requests,
                 compared, last_reset >>
merge_vars == << merge_in, merge_cfg, merged, merge_i, merge_parts, merge_pc >>
vars == << chunker_vars, inserter_vars, chat_vars, retriever_vars, merge_vars, session_vars, voice_vars, upload_vars, reset_vars >>

\* ------------------------------------------------------------------------
\* Chunker runs: texts are typed token by token, then chunked once
\* ------------------------------------------------------------------------
Tokens == { <<"a">>, <<" ">>, <<NL>>, <<Hash, " ">>, <<Hash, Hash, " ">>, <<Dash, Dash, Dash>> }

Configs ==
    { c \in [max_size : {3, MaxSize}, chunk_size : 1..MaxSize,
             min_size : 0..MaxSize, merge_reversed : BOOLEAN] :
        /\ ValidConfig(c)
        /\ c.chunk_size \in {2, c.max_size}
        /\ c.min_size \in {0, 2, c.max_size} }

NoConfig == [max_size |-> 0, chunk_size |-> 0, min_size |-> 0, merge_reversed |-> FALSE]
NoChunks == [raised |-> FALSE, chunks |-> <<>>]

InitChunker ==
    /\ text = <<>>
    /\ chunker = NoConfig
    /\ chunk_out = NoChunks
    /\ chunk_pc = "input"

TypeToken ==
    /\ chunk_pc = "input"
    /\ ins_pc = "idle"
    /\ \E tok \in Tokens :
          /\ Len(text) + Len(tok) <= MaxLen
          /\ text' = text \o tok
    /\ UNCHANGED << reset_vars, upload_vars, voice_vars, session_vars, chunker, chunk_out, chunk_pc, inserter_vars, chat_vars, retriever_vars, merge_vars >>

CallChunk ==
    /\ chunk_pc = "input"
    /\ ins_pc = "idle"
    /\ \E c \in Configs :
          /\ chunker' = c
          /\ chunk_out' = chunk(c, text)
    /\ chunk_pc' = "done"
    /\ UNCHANGED << reset_vars, upload_vars, voice_vars, session_vars, text, inserter_vars, chat_vars, retriever_vars, merge_vars >>

NextChunker == TypeToken \/ CallChunk

\* ------------------------------------------------------------------------
\* NeoInserter
\* ------------------------------------------------------------------------
BatchSize == 2
SummaryTruncation == 200

\* NeoInserter.__init__: the two chunkers (sizes scaled to the texts of the model)
BigChunkerConfig ==
    [max_size |-> MaxSize, chunk_size |-> 3, min_size |-> 2, merge_reversed |-> FALSE]
SmallChunkerConfig ==
    [max_size |-> 3, chunk_size |-> 2, min_size |-> 1, merge_reversed |-> FALSE]

\* answers of the generation service to a summary request
LLMSummaries == { <<"s">> }

\* the Embedder: one vector per text, determined by the text
Embed(t) == [of |-> t]
NoVector == [of |-> <<>>]

NoFile == [status |-> "none", error_message |-> "none"]
EmptyKb == [file |-> NoFile, rows |-> <<>>]

\* big_text[:200]
Truncate(t, n) == SubSeq(t, 1, IF Len(t) < n THEN Len(t) ELSE n)

\* the work items insert appends for one big chunk: the summary (when enabled),
\* then one item per small chunk
WorkItemsOf(b, summary, use_summary, small_texts) ==
    (IF use_summary THEN << [type |-> "summary", big_idx |-> b, text |-> summary] >> ELSE <<>>)
    \o [i \in 1..Len(small_texts) |-> [type |-> "small_chunk", big_idx |-> b, text |-> small_texts[i]]]

\* the rows of the final transaction for big chunk b: the BigChunk, its summary, its small chunks
RowsOf(b, big_texts, items, vectors) ==
    << [kind |-> "big", big_idx |-> b, text |-> big_texts[b], embedding |-> NoVector] >>
    \o SelectSeq([i \in 1..Len(items) |->
                    [kind |-> items[i].type, big_idx |-> items[i].big_idx,
                     text |-> items[i].text, embedding |-> vectors[i]]],
                 LAMBDA row : row.big_idx = b)

\* mutant of the except clause: the row is marked failed without the message
mark_failed_without_message(db, exc) ==
    IF db.file.status = "none" THEN db
    ELSE [db EXCEPT !.file = [status |-> "failed", error_message |-> "none"]]

\* the except clause of insert: the File row marked failed with str(exc)
mark_failed(db, exc) ==
    IF db.file.status = "none" THEN db
    ELSE [db EXCEPT !.file = [status |-> "failed", error_message |-> exc]]

InitInserter ==
    /\ ins_pc = "idle"
    /\ enable_summaries = TRUE
    /\ kb = EmptyKb
    /\ kb_sess = EmptyKb
    /\ big_chunk_texts = <<>>
    /\ work_items = <<>>
    /\ embeddings = <<>>
    /\ ins_idx = 0
    /\ ins_exc = "none"
    /\ ins_failed_at = "none"
    /\ ins_raised = "none"
    /\ ins_result = "none"

\* the exception `exc` raised at `step` inside the try block reaches the except clause
Caught(exc, step) ==
    /\ ins_pc' = "handler"
    /\ ins_exc' = exc
    /\ ins_failed_at' = step

\* insert, lines 73-80: the File row is created in status processing and committed
InsertBootstrap ==
    /\ ins_pc = "idle"
    /\ chunk_pc = "input"
    /\ \E flag \in BOOLEAN : enable_summaries' = flag
    /\ kb' = session_scope(TRUE, FALSE, kb,
                           [kb EXCEPT !.file = [status |-> "processing", error_message |-> "none"]])
    /\ ins_pc' = "chunk"
    /\ UNCHANGED << reset_vars, upload_vars, voice_vars, session_vars, chunker_vars, merge_vars, chat_vars, retriever_vars, kb_sess, big_chunk_texts, work_items, embeddings, ins_idx,
                    ins_exc, ins_failed_at, ins_raised, ins_result >>

\* insert, lines 73-80: the bootstrap transaction raises; nothing is committed and
\* the exception leaves insert (the try block has not been entered)
InsertBootstrapFail ==
    /\ ins_pc = "idle"
    /\ chunk_pc = "input"
    /\ kb' = session_scope(TRUE, TRUE, kb,
                           [kb EXCEPT !.file = [status |-> "processing", error_message |-> "none"]])
    /\ ins_pc' = "raised"
    /\ ins_exc' = "DBError"
    /\ ins_failed_at' = "bootstrap"
    /\ ins_raised' = "DBError"
    /\ UNCHANGED << reset_vars, upload_vars, voice_vars, session_vars, chunker_vars, merge_vars, chat_vars, retriever_vars, enable_summaries, kb_sess, big_chunk_texts, work_items,
                    embeddings, ins_idx, ins_result >>

\* insert, lines 88-95: big chunking; no chunk at all makes insert return None
InsertBigChunks ==
    /\ ins_pc = "chunk"
    /\ \E r \in { chunk(BigChunkerConfig, text) } :
          IF r.raised
            THEN /\ Caught("ValueError", "chunking")
                 /\ UNCHANGED << big_chunk_texts, ins_idx, ins_result >>
          ELSE IF r.chunks = <<>>
            THEN /\ ins_pc' = "returned"
                 /\ ins_result' = "None"
                 /\ UNCHANGED << big_chunk_texts, ins_idx, ins_exc, ins_failed_at >>
          ELSE /\ ins_pc' = "work"
               /\ big_chunk_texts' = r.chunks
               /\ ins_idx' = 1
               /\ UNCHANGED << ins_exc, ins_failed_at, ins_result >>
    /\ UNCHANGED << reset_vars, upload_vars, voice_vars, session_vars, chunker_vars, merge_vars, chat_vars, retriever_vars, enable_summaries, kb, kb_sess, work_items, embeddings, ins_raised >>

\* insert, lines 105-135, one big chunk: the summary (a failed request degrades to
\* the truncated text) and the small chunks
InsertWorkItems ==
    /\ ins_pc = "work"
    /\ \E summary \in (IF enable_summaries
                         THEN LLMSummaries \cup { Truncate(big_chunk_texts[ins_idx], SummaryTruncation) }
                         ELSE { <<>> }) :
       \E r \in { chunk(SmallChunkerConfig, big_chunk_texts[ins_idx]) } :
          IF r.raised
            THEN /\ Caught("ValueError", "chunking")
                 /\ UNCHANGED << work_items, ins_idx >>
          ELSE /\ work_items' = work_items \o WorkItemsOf(ins_idx, summary, enable_summaries, r.chunks)
               /\ IF ins_idx < Len(big_chunk_texts)
                    THEN ins_idx' = ins_idx + 1 /\ ins_pc' = "work"
                    ELSE ins_idx' = 1 /\ ins_pc' = "embed"
               /\ UNCHANGED << ins_exc, ins_failed_at >>
    /\ UNCHANGED << reset_vars, upload_vars, voice_vars, session_vars, chunker_vars, merge_vars, chat_vars, retriever_vars, enable_summaries, kb, kb_sess, big_chunk_texts, embeddings,
                    ins_raised, ins_result >>

\* _embed_in_batches, one batch: the vectors come back in the order of the payload
InsertEmbedBatch ==
    /\ ins_pc = "embed"
    /\ embeddings' = embeddings \o
          [i \in 1..(IF ins_idx + BatchSize - 1 <= Len(work_items)
                       THEN BatchSize ELSE Len(work_items) - ins_idx + 1) |->
              Embed(work_items[ins_idx + i - 1].text)]
    /\ IF ins_idx + BatchSize <= Len(work_items)
         THEN ins_idx' = ins_idx + BatchSize /\ ins_pc' = "embed"
         ELSE ins_idx' = 1 /\ ins_pc' = "persist"
    /\ UNCHANGED << reset_vars, upload_vars, voice_vars, session_vars, chunker_vars, merge_vars, chat_vars, retriever_vars, enable_summaries, kb, kb_sess, big_chunk_texts, work_items,
                    ins_exc, ins_failed_at, ins_raised, ins_result >>

\* _embed_in_batches: the embedding service raises on a batch
InsertEmbedFail ==
    /\ ins_pc = "embed"
    /\ ins_idx <= Len(work_items)
    /\ Caught("EmbedError", "embedding")
    /\ UNCHANGED << reset_vars, upload_vars, voice_vars, session_vars, chunker_vars, merge_vars, chat_vars, retriever_vars, enable_summaries, kb, kb_sess, big_chunk_texts, work_items,
                    embeddings, ins_idx, ins_raised, ins_result >>

\* insert, lines 164-172: the final transaction opens; the File row is set to ok
InsertPersistOpen ==
    /\ ins_pc = "persist"
    /\ kb_sess' = [kb EXCEPT !.file = [status |-> "ok", error_message |-> "none"]]
    /\ ins_pc' = "persist_rows"
    /\ ins_idx' = 1
    /\ UNCHANGED << reset_vars, upload_vars, voice_vars, session_vars, chunker_vars, merge_vars, chat_vars, retriever_vars, enable_summaries, kb, big_chunk_texts, work_items, embeddings,
                    ins_exc, ins_failed_at, ins_raised, ins_result >>

\* insert, lines 174-194: the rows of one big chunk are added to the session
InsertPersistRows ==
    /\ ins_pc = "persist_rows"
    /\ ins_idx <= Len(big_chunk_texts)
    /\ kb_sess' = [kb_sess EXCEPT !.rows = @ \o RowsOf(ins_idx, big_chunk_texts, work_items, embeddings)]
    /\ ins_idx' = ins_idx + 1
    /\ UNCHANGED << reset_vars, upload_vars, voice_vars, session_vars, chunker_vars, merge_vars, chat_vars, retriever_vars, enable_summaries, kb, big_chunk_texts, work_items, embeddings,
                    ins_pc, ins_exc, ins_failed_at, ins_raised, ins_result >>

\* insert, lines 196-198: flush, then session_scope commits and insert returns the id
InsertPersistCommit ==
    /\ ins_pc = "persist_rows"
    /\ ins_idx > Len(big_chunk_texts)
    /\ kb' = session_scope(TRUE, FALSE, kb, kb_sess)
    /\ kb_sess' = EmptyKb
    /\ ins_pc' = "returned"
    /\ ins_result' = "file_id"
    /\ UNCHANGED << reset_vars, upload_vars, voice_vars, session_vars, chunker_vars, merge_vars, chat_vars, retriever_vars, enable_summaries, big_chunk_texts, work_items, embeddings,
                    ins_idx, ins_exc, ins_failed_at, ins_raised >>

\* insert, lines 164-196: a statement of the final transaction (an add, the flush,
\* the commit) raises; session_scope rolls back and the except clause is entered
InsertPersistFail ==
    /\ ins_pc = "persist_rows"
    /\ kb' = session_scope(TRUE, TRUE, kb, kb_sess)
    /\ kb_sess' = EmptyKb
    /\ Caught("DBError", "persist")
    /\ UNCHANGED << reset_vars, upload_vars, voice_vars, session_vars, chunker_vars, merge_vars, chat_vars, retriever_vars, enable_summaries, big_chunk_texts, work_items, embeddings,
                    ins_idx, ins_raised, ins_result >>

\* insert, lines 200-212: the except clause marks the File row failed in a
\* transaction of its own, then re-raises the exception it caught
InsertMarkFailed ==
    /\ ins_pc = "handler"
    /\ kb' = session_scope(TRUE, FALSE, kb, mark_failed(kb, ins_exc))
    /\ ins_raised' = ins_exc
    /\ ins_pc' = "raised"
    /\ UNCHANGED << reset_vars, upload_vars, voice_vars, session_vars, chunker_vars, merge_vars, chat_vars, retriever_vars, enable_summaries, kb_sess, big_chunk_texts, work_items,
                    embeddings, ins_idx, ins_exc, ins_failed_at, ins_result >>

NextInserter ==
    \/ TypeToken
    \/ InsertBootstrap
    \/ InsertBootstrapFail
    \/ InsertBigChunks
    \/ InsertWorkItems
    \/ InsertEmbedBatch
    \/ InsertEmbedFail
    \/ InsertPersistOpen
    \/ InsertPersistRows
    \/ InsertPersistCommit
    \/ InsertPersistFail
    \/ InsertMarkFailed

\* ------------------------------------------------------------------------
\* Specifications
\* ------------------------------------------------------------------------
\* ------------------------------------------------------------------------
\* ChatHistory calls: add, flush_to_db and maybe_summarise in any order
\* ------------------------------------------------------------------------
Contents == { <<"w">>, <<"w", "w", "w">> }
Roles == <<"user", "assistant">>
NoException == [type |-> "none", partial |-> <<>>]
Raised(type) == [type |-> type, partial |-> <<>>]

InitHistory ==
    /\ history = NewHistory
    /\ chat_db = EmptyChatDb
    /\ tokenizer_up = TRUE
    /\ next_msg_id = 1
    /\ chat_call = "none"
    /\ chat_raised = NoException

\* the places where a flush_to_db of history h can raise; -1: nowhere
FailPoints(h) == -1 .. NumPending(h.messages)

\* the generation service's summary of a transcript, named by the entries it
\* was given (_history_as_plain of the whole transcript)
SummaryOf(msgs) == [i \in 1..Len(msgs) |-> msgs[i].id]

\* what the callees of one maybe_summarise can do, each choice listed once:
\* the call returns early or the generation service raises (Stopped), its first
\* flush_to_db raises (FirstFlushFails), or it evicts and flushes again (Evicting)
Outcome(h, up, ups, gen_ok, fail1, fail2) ==
    [up |-> up, ups |-> ups, gen_ok |-> gen_ok, summary |-> SummaryOf(h.messages),
     fail1 |-> fail1, fail2 |-> fail2]
AllUp(h) == [i \in 1..Len(h.messages) |-> TRUE]
Stopped(h) == { Outcome(h, up, AllUp(h), FALSE, -1, -1) : up \in BOOLEAN }
FirstFlushFails(h) ==
    { Outcome(h, up, AllUp(h), TRUE, k, -1) : up \in BOOLEAN, k \in 0..NumPending(h.messages) }
Evicting(h) ==
    { Outcome(h, up, ups, TRUE, -1, fail2) :
        up \in BOOLEAN, ups \in [1..Len(h.messages) -> BOOLEAN], fail2 \in {-1, 0} }
Outcomes(h) == Stopped(h) \cup FirstFlushFails(h) \cup Evicting(h)

\* the history call returned or raised r
Deliver(r) ==
    /\ history' = r.hist
    /\ chat_db' = r.db
    /\ tokenizer_up' = r.up
    /\ chat_raised' = IF r.raised THEN Raised("Exception") ELSE NoException

HistAdd ==
    /\ next_msg_id <= MaxEntries
    /\ \E content \in Contents :
          history' = add(history, next_msg_id, Roles[2 - (next_msg_id % 2)], content, {})
    /\ next_msg_id' = next_msg_id + 1
    /\ chat_call' = "add"
    /\ chat_raised' = NoException
    /\ UNCHANGED << reset_vars, upload_vars, voice_vars, session_vars, chunker_vars, merge_vars, inserter_vars, retriever_vars, orchestrator_vars, chat_db, tokenizer_up >>

HistFlush ==
    /\ \E fail_at \in FailPoints(history) :
          Deliver(WithUp(flush_to_db(history, chat_db, fail_at), tokenizer_up))
    /\ chat_call' = "flush_to_db"
    /\ UNCHANGED << reset_vars, upload_vars, voice_vars, session_vars, chunker_vars, merge_vars, inserter_vars, retriever_vars, orchestrator_vars, next_msg_id >>

HistMaybeSummarise ==
    /\ \E o \in Outcomes(history) : Deliver(maybe_summarise(history, chat_db, o))
    /\ chat_call' = "maybe_summarise"
    /\ UNCHANGED << reset_vars, upload_vars, voice_vars, session_vars, chunker_vars, merge_vars, inserter_vars, retriever_vars, orchestrator_vars, next_msg_id >>

NextHistory == HistAdd \/ HistFlush \/ HistMaybeSummarise

\* ChatHistory(conversation) for the stored conversation: a new history object
\* takes the place of the old one and loads its transcript from the store
HistLoad ==
    /\ chat_db.conversation.id # 0
    /\ \E up \in BOOLEAN :
          \E msgs \in { Loaded(chat_db, up) } :
             \E ups \in [1..Len(msgs) -> BOOLEAN] :
                /\ history' = [messages |-> LoadGuard(msgs, ups),
                               conversation |-> chat_db.conversation]
                /\ tokenizer_up' = IF msgs = <<>> THEN up ELSE EvictUp(msgs, ups)
    /\ chat_call' = "load"
    /\ chat_raised' = NoException
    /\ UNCHANGED << reset_vars, upload_vars, voice_vars, session_vars, chunker_vars, merge_vars, inserter_vars, retriever_vars, orchestrator_vars, chat_db, next_msg_id >>

NextReload == HistAdd \/ HistFlush \/ HistMaybeSummarise \/ HistLoad

\* ------------------------------------------------------------------------
\* ChatSystem calls: blocking and streaming turns, then close
\* ------------------------------------------------------------------------
FullReply == [i \in 1..MaxFragments |-> IF i % 2 = 1 THEN "Hello" ELSE "world"]
Replies == { SubSeq(FullReply, 1, n) : n \in 0..MaxFragments }
HasChunks == {TRUE}
UserTexts == { <<"q">> }
NoTurn == [user_text |-> <<>>, user_msg_id |-> 0, assistant_msg_id |-> 0, has_chunks |-> FALSE]

\* what the generation service answers to a rewrite request
RewriteAnswers(user_text) == { <<"standalone">> \o user_text }
NoIds == [user_id |-> 0, assistant_id |-> 0]

\* receive, lines 218 and 223-224: {"user_id": user_msg_id, "assistant_id": assistant_msg_id}
IdsOf(t) == [user_id |-> t.user_msg_id, assistant_id |-> t.assistant_msg_id]

NoUtilsCall == [query |-> <<>>, given |-> 0, invoked |-> FALSE, result |-> <<>>, failed_at |-> "none"]

InitOrchestrator ==
    /\ persistence = TRUE
    /\ title_generated = FALSE
    /\ chat_pc = "idle"
    /\ turn = NoTurn
    /\ token_acc = <<>>
    /\ utils_call = NoUtilsCall
    /\ chat_returned = NoIds

\* ChatSystem.__init__ for a new conversation
NewChatSystem ==
    /\ chat_call = "none"
    /\ \E p \in BOOLEAN : persistence' = p
    /\ title_generated' = FALSE
    /\ chat_call' = "__init__"
    /\ utils_call' = NoUtilsCall
    /\ chat_returned' = NoIds
    /\ UNCHANGED << reset_vars, upload_vars, voice_vars, session_vars, chunker_vars, merge_vars, inserter_vars, retriever_vars, history, chat_db, tokenizer_up,
                    next_msg_id, chat_raised, chat_pc, turn, token_acc >>

\* receive, lines 124-129: the turn with its precreated identifiers
NewTurn(user_text, has_chunks) ==
    [user_text |-> user_text, user_msg_id |-> next_msg_id,
     assistant_msg_id |-> next_msg_id + 1, has_chunks |-> has_chunks]

\* _finalise_turn returned or raised r; exc is what the caller then receives
DeliverTurn(r, exc) ==
    /\ history' = r.hist
    /\ chat_db' = r.db
    /\ tokenizer_up' = r.up
    /\ title_generated' = r.title_generated
    /\ chat_raised' = IF r.raised THEN Raised("Exception") ELSE exc

\* what receive does before it calls the generator: the rewrite is asked only on a
\* transcript that is not empty, and only a call that is made can raise
Preludes(user_text, messages, failures) ==
    { p \in { Prelude(user_text, messages, RewrittenQuery(user_text, messages, a), f) :
                a \in RewriteAnswers(user_text), f \in failures } :
        p.failed_at = "rewrite" => p.invoked }

\* how _finalise_turn can go on the history h that holds the turn: generate_title
\* is called only when a title is needed, and when it raises nothing follows
TurnEndings(h, needs_title) ==
    { [title_ok |-> TRUE, o |-> o] : o \in Outcomes(h) }
      \cup (IF needs_title THEN { [title_ok |-> FALSE, o |-> o] : o \in Stopped(h) } ELSE {})

\* ConversationUtils.rewrite called on the transcript
CallRewrite ==
    /\ chat_call # "none"
    /\ \E u \in UserTexts, ok \in BOOLEAN :
         \E a \in RewriteAnswers(u) : \E r \in { rewrite(u, history.messages, a) } :
            /\ ~ok => r.invoked
            /\ utils_call' = Prelude(u, history.messages, r, IF ok THEN "none" ELSE "rewrite")
            /\ chat_raised' = IF ok THEN NoException ELSE Raised("Exception")
    /\ chat_call' = "rewrite"
    /\ chat_returned' = NoIds
    /\ UNCHANGED << reset_vars, upload_vars, voice_vars, session_vars, chunker_vars, merge_vars, inserter_vars, retriever_vars,
                    history, chat_db, tokenizer_up, next_msg_id, persistence, title_generated,
                    chat_pc, turn, token_acc >>

\* receive(stream=False)
ReceiveBlocking ==
    /\ chat_call # "none"
    /\ chat_pc # "streaming"
    /\ next_msg_id + 1 <= 2 * MaxTurns
    /\ \E u \in UserTexts, c \in HasChunks :
       \E p \in Preludes(u, history.messages, {"none", "rewrite", "retrieval", "generation"}) :
          /\ utils_call' = p
          /\ IF p.failed_at = "none"
               THEN /\ \E reply \in Replies :
                          \E e \in TurnEndings(WithTurn(history, NewTurn(u, c), reply),
                                               NeedsTitle(title_generated, reply)) :
                             DeliverTurn(finalise_turn(history, chat_db, NewTurn(u, c), reply, FALSE,
                                                       title_generated, e.title_ok, e.o),
                                         NoException)
                    /\ chat_returned' = IF chat_raised'.type = "none" THEN IdsOf(NewTurn(u, c))
                                        ELSE NoIds
                    /\ next_msg_id' = next_msg_id + 2
               ELSE /\ DeliverTurn(receive_raised(history, chat_db, tokenizer_up, title_generated,
                                                  NewTurn(u, c), p),
                                   NoException)
                    /\ chat_returned' = NoIds
                    /\ UNCHANGED next_msg_id
    /\ chat_call' = "receive"
    /\ UNCHANGED << reset_vars, upload_vars, voice_vars, session_vars, chunker_vars, merge_vars, inserter_vars, retriever_vars, persistence, chat_pc, turn, token_acc >>

\* receive(stream=True): the generator of _stream_response is returned unstarted
ReceiveStream ==
    /\ chat_call # "none"
    /\ chat_pc # "streaming"
    /\ next_msg_id + 1 <= 2 * MaxTurns
    /\ \E u \in UserTexts, c \in HasChunks :
       \E p \in Preludes(u, history.messages, {"none", "rewrite", "retrieval"}) :
          /\ utils_call' = p
          /\ IF p.failed_at = "none"
               THEN /\ turn' = NewTurn(u, c)
                    /\ chat_pc' = "streaming"
                    /\ token_acc' = <<>>
                    /\ next_msg_id' = next_msg_id + 2
                    /\ chat_raised' = NoException
                    /\ chat_returned' = IdsOf(NewTurn(u, c))
               ELSE /\ chat_raised' = Raised("Exception")
                    /\ chat_returned' = NoIds
                    /\ UNCHANGED << chat_pc, turn, token_acc, next_msg_id >>
    /\ chat_call' = "receive"
    /\ UNCHANGED << reset_vars, upload_vars, voice_vars, session_vars, chunker_vars, merge_vars, inserter_vars, retriever_vars, history, chat_db, tokenizer_up, persistence,
                    title_generated >>

\* next() on the generator: the generation stream yields one more fragment
StreamToken ==
    /\ chat_pc = "streaming"
    /\ Len(token_acc) < MaxFragments
    /\ token_acc' = Append(token_acc, FullReply[Len(token_acc) + 1])
    /\ chat_call' = "next"
    /\ chat_raised' = NoException
    /\ utils_call' = NoUtilsCall
    /\ chat_returned' = NoIds
    /\ UNCHANGED << reset_vars, upload_vars, voice_vars, session_vars, chunker_vars, merge_vars, inserter_vars, retriever_vars, history, chat_db, tokenizer_up, next_msg_id,
                    persistence, title_generated, chat_pc, turn >>

\* next() on the generator: the generation stream raises (lines 253-272)
StreamRaise ==
    /\ chat_pc = "streaming"
    /\ \E title_ok \in BOOLEAN :
          \E o \in Stopped(WithTurn(history, turn, token_acc)) :
             DeliverTurn(finalise_turn(history, chat_db, turn, token_acc, TRUE,
                                       title_generated, title_ok, o),
                         [type |-> "GenerationAborted", partial |-> token_acc])
    /\ chat_pc' = "aborted"
    /\ chat_call' = "next"
    /\ utils_call' = NoUtilsCall
    /\ chat_returned' = NoIds
    /\ UNCHANGED << reset_vars, upload_vars, voice_vars, session_vars, chunker_vars, merge_vars, inserter_vars, retriever_vars, next_msg_id, persistence, turn, token_acc >>

\* next() on the generator: the generation stream ends (lines 273-290)
StreamFinish ==
    /\ chat_pc = "streaming"
    /\ \E e \in TurnEndings(WithTurn(history, turn, token_acc),
                             NeedsTitle(title_generated, token_acc)) :
          DeliverTurn(finalise_turn(history, chat_db, turn, token_acc, FALSE,
                                    title_generated, e.title_ok, e.o),
                      NoException)
    /\ chat_pc' = "finished"
    /\ chat_call' = "next"
    /\ utils_call' = NoUtilsCall
    /\ chat_returned' = NoIds
    /\ UNCHANGED << reset_vars, upload_vars, voice_vars, session_vars, chunker_vars, merge_vars, inserter_vars, retriever_vars, next_msg_id, persistence, turn, token_acc >>

\* the consumer stops iterating: the generator is closed at its yield, and
\* GeneratorExit is not caught by `except Exception`
StreamAbandon ==
    /\ chat_pc = "streaming"
    /\ chat_pc' = "abandoned"
    /\ chat_call' = "abandon"
    /\ utils_call' = NoUtilsCall
    /\ chat_returned' = NoIds
    /\ chat_raised' = NoException
    /\ UNCHANGED << reset_vars, upload_vars, voice_vars, session_vars, chunker_vars, merge_vars, inserter_vars, retriever_vars, history, chat_db, tokenizer_up, next_msg_id,
                    persistence, title_generated, turn, token_acc >>

\* ChatSystem.close
Close ==
    /\ chat_call # "none"
    /\ IF persistence
         THEN \E fail_at \in FailPoints(history) :
                 Deliver(WithUp(flush_to_db(history, chat_db, fail_at), tokenizer_up))
         ELSE /\ chat_raised' = NoException
              /\ UNCHANGED << history, chat_db, tokenizer_up >>
    /\ chat_call' = "close"
    /\ utils_call' = NoUtilsCall
    /\ chat_returned' = NoIds
    /\ UNCHANGED << reset_vars, upload_vars, voice_vars, session_vars, chunker_vars, merge_vars, inserter_vars, retriever_vars, next_msg_id,
                    persistence, title_generated, chat_pc, turn, token_acc >>

NextChat ==
    \/ NewChatSystem
    \/ CallRewrite
    \/ ReceiveBlocking
    \/ ReceiveStream
    \/ StreamToken
    \/ StreamRaise
    \/ StreamFinish
    \/ StreamAbandon
    \/ Close

\* ------------------------------------------------------------------------
\* The chat endpoint (api/chatsystem/chatsystem.py): every request builds a
\* ChatSystem for the stored conversation, calls receive, and calls close() in
\* its `finally`; a streamed reply is iterated after the handler has returned
\* ------------------------------------------------------------------------
\* create_conversation: the Conversation row is stored and gets its id
CreateConversation ==
    /\ chat_db.conversation.id = 0
    /\ chat_db' = [chat_db EXCEPT !.conversation.id = 1]
    /\ chat_call' = "create_conversation"
    /\ chat_raised' = NoException
    /\ utils_call' = NoUtilsCall
    /\ chat_returned' = NoIds
    /\ UNCHANGED << reset_vars, upload_vars, voice_vars, session_vars, chunker_vars, merge_vars, inserter_vars, retriever_vars, history, tokenizer_up, next_msg_id,
                    persistence, title_generated, chat_pc, turn, token_acc >>

\* ChatHistory(conversation=stored), the history of ChatSystem.__init__
LoadedWith(d, up, msgs) ==
    { [hist |-> [messages |-> LoadGuard(msgs, ups), conversation |-> d.conversation],
       up |-> IF msgs = <<>> THEN up ELSE EvictUp(msgs, ups)] :
         ups \in [1..Len(msgs) -> BOOLEAN] }

LoadedHistories(d) == UNION { LoadedWith(d, up, Loaded(d, up)) : up \in BOOLEAN }

\* chat_system.close() in the `finally` of the handler, after receive left r
ClosedAfter(r, fail_at) ==
    [hist |-> flush_to_db(r.hist, r.db, fail_at).hist,
     db |-> flush_to_db(r.hist, r.db, fail_at).db,
     raised |-> r.raised \/ flush_to_db(r.hist, r.db, fail_at).raised,
     up |-> r.up, title_generated |-> r.title_generated]

\* the handler returned or raised r: an exception leaves it as HTTP 500
DeliverResponse(r) ==
    /\ history' = r.hist
    /\ chat_db' = r.db
    /\ tokenizer_up' = r.up
    /\ title_generated' = r.title_generated
    /\ chat_raised' = IF r.raised THEN Raised("HTTPException") ELSE NoException

\* chat_with_system(stream=False)
ChatRequest ==
    /\ chat_db.conversation.id # 0
    /\ chat_pc # "streaming"
    /\ next_msg_id + 1 <= 2 * MaxTurns
    /\ \E u \in UserTexts, c \in HasChunks :
       \E l \in LoadedHistories(chat_db) :
       \E p \in Preludes(u, l.hist.messages, {"none", "rewrite", "retrieval", "generation"}) :
          /\ utils_call' = p
          /\ IF p.failed_at = "none"
               THEN /\ \E reply \in Replies :
                       \E e \in TurnEndings(WithTurn(l.hist, NewTurn(u, c), reply),
                                            NeedsTitle(FALSE, reply)) :
                       \E r \in { finalise_turn(l.hist, chat_db, NewTurn(u, c), reply, FALSE,
                                                FALSE, e.title_ok, e.o) } :
                       \E fail_at \in FailPoints(r.hist) :
                          DeliverResponse(ClosedAfter(r, fail_at))
                    /\ chat_returned' = IF chat_raised'.type = "none" THEN IdsOf(NewTurn(u, c))
                                        ELSE NoIds
                    /\ next_msg_id' = next_msg_id + 2
               ELSE /\ \E r \in { receive_raised(l.hist, chat_db, l.up, FALSE, NewTurn(u, c), p) } :
                       \E fail_at \in FailPoints(r.hist) :
                          DeliverResponse(ClosedAfter(r, fail_at))
                    /\ chat_returned' = NoIds
                    /\ UNCHANGED next_msg_id
    /\ chat_pc' = "idle"
    /\ turn' = NoTurn
    /\ token_acc' = <<>>
    /\ chat_call' = "chat"
    /\ UNCHANGED << reset_vars, upload_vars, voice_vars, session_vars, chunker_vars, merge_vars, inserter_vars, retriever_vars, persistence >>

\* chat_with_system(stream=True): receive returns the generator unstarted, the
\* StreamingResponse is returned, and close() has run before its body is iterated
ChatStreamRequest ==
    /\ chat_db.conversation.id # 0
    /\ chat_pc # "streaming"
    /\ next_msg_id + 1 <= 2 * MaxTurns
    /\ \E u \in UserTexts, c \in HasChunks :
       \E l \in LoadedHistories(chat_db) :
       \E p \in Preludes(u, l.hist.messages, {"none", "rewrite", "retrieval"}) :
       \E fail_at \in FailPoints(l.hist) :
       \E r \in { ClosedAfter(Finalised(Result(l.hist, chat_db, p.failed_at # "none", l.up), FALSE),
                              fail_at) } :
          /\ utils_call' = p
          /\ DeliverResponse(r)
          /\ IF ~r.raised
               THEN /\ turn' = NewTurn(u, c)
                    /\ chat_pc' = "streaming"
                    /\ next_msg_id' = next_msg_id + 2
                    /\ chat_returned' = IdsOf(NewTurn(u, c))
               ELSE /\ turn' = NoTurn
                    /\ chat_pc' = "idle"
                    /\ chat_returned' = NoIds
                    /\ UNCHANGED next_msg_id
    /\ token_acc' = <<>>
    /\ chat_call' = "chat_stream"
    /\ UNCHANGED << reset_vars, upload_vars, voice_vars, session_vars, chunker_vars, merge_vars, inserter_vars, retriever_vars, persistence >>

NextEndpoint ==
    \/ CreateConversation
    \/ ChatRequest
    \/ ChatStreamRequest
    \/ StreamToken
    \/ StreamRaise
    \/ StreamFinish
    \/ StreamAbandon

\* ------------------------------------------------------------------------
\* Retrieval: rows are indexed, then one query is retrieved
\* ------------------------------------------------------------------------
Retrievers ==
    [alpha : {0, 6, 10}, limit : {1, MaxBig}, prefetch_limit : {1, MaxBig},
     summary_limit : {MaxRows}, small_chunk_limit : {2, MaxRows}]
NoRetriever ==
    [alpha |-> 0, limit |-> 0, prefetch_limit |-> 0, summary_limit |-> 0, small_chunk_limit |-> 0]

InitRetriever ==
    /\ index_rows = {}
    /\ doc_status = [b \in 1..MaxBig |-> "processing"]
    /\ retriever = NoRetriever
    /\ ret_pc = "index"
    /\ summary_scores = <<>>
    /\ small_chunk_scores = <<>>
    /\ big_chunk_scores = <<>>
    /\ top_big_chunks = <<>>
    /\ rerank_responses = <<>>
    /\ results = <<>>

\* a small chunk or a summary of a big chunk is stored with its embedding; a
\* big chunk has one summary at most
IndexRow ==
    /\ ret_pc = "index"
    /\ Cardinality(index_rows) < MaxRows
    /\ \E db_model \in {"summary", "small_chunk"}, b \in 1..MaxBig, d \in 0..MaxDistance :
          /\ db_model = "summary" =>
                ~\E r \in index_rows : r.model = "summary" /\ r.big_chunk_id = b
          /\ index_rows' = index_rows \cup
                             {[model |-> db_model, big_chunk_id |-> b, distance |-> d]}
    /\ UNCHANGED << reset_vars, upload_vars, voice_vars, session_vars, chunker_vars, merge_vars, inserter_vars, chat_vars, doc_status, retriever, ret_pc,
                    summary_scores, small_chunk_scores, big_chunk_scores, top_big_chunks,
                    rerank_responses, results >>

\* the ingestion of a document ends: its File goes from processing to ok or to
\* failed, once; this can happen while a query is being retrieved
SettleDocument ==
    /\ ret_pc \in {"index", "rerank"}
    /\ \E b \in 1..MaxBig, st \in {"ok", "failed"} :
          /\ doc_status[b] = "processing"
          /\ doc_status' = [doc_status EXCEPT ![b] = st]
    /\ UNCHANGED << reset_vars, upload_vars, voice_vars, session_vars, chunker_vars, merge_vars, inserter_vars, chat_vars, index_rows, retriever, ret_pc,
                    summary_scores, small_chunk_scores, big_chunk_scores, top_big_chunks,
                    rerank_responses, results >>

\* retrieve, lines 33-38, then line 107 when there is nothing to rerank
RetrieveCandidates ==
    /\ ret_pc = "index"
    /\ \E rt \in Retrievers :
          /\ retriever' = rt
          /\ \E su \in Fetched(index_rows, doc_status, "summary", rt.summary_limit),
                sm \in Fetched(index_rows, doc_status, "small_chunk", rt.small_chunk_limit) :
                /\ summary_scores' = get_submodel_similarity(su)
                /\ small_chunk_scores' = get_submodel_similarity(sm)
    /\ big_chunk_scores' = merge_scores(retriever'.alpha, summary_scores', small_chunk_scores')
    /\ top_big_chunks' = get_top_big_chunks(big_chunk_scores', retriever'.prefetch_limit)
    /\ ret_pc' = IF top_big_chunks' = <<>> THEN "done" ELSE "rerank"
    /\ UNCHANGED << reset_vars, upload_vars, voice_vars, session_vars, chunker_vars, merge_vars, inserter_vars, chat_vars, index_rows, doc_status,
                    rerank_responses, results >>

\* the answers of the rerank service for n documents sent in batches: each
\* answer lists every document of its batch once, by index, in any order
BatchLen(n, b) == SetMin({RerankBatchSize, n - (b - 1) * RerankBatchSize})
Answers(m) ==
    { q \in [1..m -> [index : 0..(m - 1), relevance_score : 0..MaxScore]] :
        \A i, j \in 1..m : q[i].index = q[j].index => i = j }
ServiceAnswers(n) ==
    { q \in [1..((n + RerankBatchSize - 1) \div RerankBatchSize) ->
                UNION { Answers(m) : m \in 1..RerankBatchSize }] :
        \A b \in DOMAIN q : Len(q[b]) = BatchLen(n, b) }

\* retrieve, lines 39-54: the candidates are reranked and the results built
RetrieveRerank ==
    /\ ret_pc = "rerank"
    /\ \E q \in ServiceAnswers(Len(top_big_chunks)) : rerank_responses' = q
    /\ results' = Results(rerank_chunks_with_scores(top_big_chunks,
                                                    rerank(rerank_responses', RerankBatchSize)),
                          retriever.limit, summary_scores, small_chunk_scores, big_chunk_scores)
    /\ ret_pc' = "done"
    /\ UNCHANGED << reset_vars, upload_vars, voice_vars, session_vars, chunker_vars, merge_vars, inserter_vars, chat_vars, index_rows, doc_status, retriever,
                    summary_scores, small_chunk_scores, big_chunk_scores, top_big_chunks >>

NextRetriever == IndexRow \/ SettleDocument \/ RetrieveCandidates \/ RetrieveRerank

\* ------------------------------------------------------------------------
\* _merge_small_chunks, one loop iteration at a time
\* ------------------------------------------------------------------------
MaxChunks == 3

Fragment(n) == [k \in 1..n |-> "a"]

\* if len(merged[i]) < self.min_size ... if len(candidate) <= self.max_size
MergeAllowedAnySize(c, small, candidate) == Len(small) < c.min_size

MergeAllowed(c, small, candidate) ==
    /\ Len(small) < c.min_size
    /\ Len(candidate) <= c.max_size

\* merged[k] = candidate; del merged[k + 1]
MergeAt(s, k, candidate) ==
    SubSeq(s, 1, k - 1) \o << candidate >> \o SubSeq(s, k + 2, Len(s))

InitMerge ==
    /\ merge_in = <<>>
    /\ merge_cfg = NoConfig
    /\ merged = <<>>
    /\ merge_i = 0
    /\ merge_parts = <<>>
    /\ merge_pc = "input"

MergeInput ==
    /\ merge_pc = "input"
    /\ Len(merge_in) < MaxChunks
    /\ \E n \in 0..(MaxSize + 1) : merge_in' = Append(merge_in, Fragment(n))
    /\ UNCHANGED << reset_vars, upload_vars, voice_vars, session_vars, chunker_vars, inserter_vars, chat_vars, retriever_vars,
                    merge_cfg, merged, merge_i, merge_parts, merge_pc >>

MergeStart ==
    /\ merge_pc = "input"
    /\ \E c \in Configs :
         /\ merge_cfg' = c
         /\ merged' = merge_in
         /\ merge_parts' = [k \in 1..Len(merge_in) |-> 1]
         /\ IF c.min_size = 0 \/ merge_in = <<>>
            THEN merge_pc' = "done" /\ merge_i' = 0
            ELSE /\ merge_pc' = "loop"
                 /\ merge_i' = IF c.merge_reversed THEN Len(merge_in) ELSE 1
    /\ UNCHANGED << reset_vars, upload_vars, voice_vars, session_vars, chunker_vars, inserter_vars, chat_vars, retriever_vars, merge_in >>

MergeLoopCondition ==
    IF merge_cfg.merge_reversed THEN merge_i > 1 ELSE merge_i < Len(merged)

MergeIterateBottomUp ==
    /\ merge_pc = "loop" /\ merge_cfg.merge_reversed /\ MergeLoopCondition
    /\ IF MergeAllowed(merge_cfg, merged[merge_i], merged[merge_i - 1] \o merged[merge_i])
       THEN /\ merged' = MergeAt(merged, merge_i - 1, merged[merge_i - 1] \o merged[merge_i])
            /\ merge_parts' = MergeAt(merge_parts, merge_i - 1,
                                      merge_parts[merge_i - 1] + merge_parts[merge_i])
            /\ merge_i' = IF merge_i < Len(merged) - 1 THEN merge_i ELSE Len(merged) - 1
       ELSE /\ merge_i' = merge_i - 1
            /\ UNCHANGED << merged, merge_parts >>
    /\ UNCHANGED << reset_vars, upload_vars, voice_vars, session_vars, chunker_vars, inserter_vars, chat_vars, retriever_vars,
                    merge_in, merge_cfg, merge_pc >>

MergeIterateTopDown ==
    /\ merge_pc = "loop" /\ ~merge_cfg.merge_reversed /\ MergeLoopCondition
    /\ IF MergeAllowed(merge_cfg, merged[merge_i], merged[merge_i] \o merged[merge_i + 1])
       THEN /\ merged' = MergeAt(merged, merge_i, merged[merge_i] \o merged[merge_i + 1])
            /\ merge_parts' = MergeAt(merge_parts, merge_i,
                                      merge_parts[merge_i] + merge_parts[merge_i + 1])
            /\ UNCHANGED merge_i
       ELSE /\ merge_i' = merge_i + 1
            /\ UNCHANGED << merged, merge_parts >>
    /\ UNCHANGED << reset_vars, upload_vars, voice_vars, session_vars, chunker_vars, inserter_vars, chat_vars, retriever_vars,
                    merge_in, merge_cfg, merge_pc >>

MergeReturn ==
    /\ merge_pc = "loop" /\ ~MergeLoopCondition
    /\ merge_pc' = "done"
    /\ UNCHANGED << reset_vars, upload_vars, voice_vars, session_vars, chunker_vars, inserter_vars, chat_vars, retriever_vars,
                    merge_in, merge_cfg, merged, merge_i, merge_parts >>

NextMerge == MergeInput \/ MergeStart \/ MergeIterateBottomUp \/ MergeIterateTopDown \/ MergeReturn

\* ------------------------------------------------------------------------
\* one session_scope after another over one table
\* ------------------------------------------------------------------------
MaxScopeWrites == 2
MaxStored == 3

ScopeRows == {"a", "b"}
ScopeExceptions == {"Exception", "KeyboardInterrupt"}

InitSession ==
    /\ sess_pc = "outside"
    /\ sess_write_enabled = FALSE
    /\ sess_db = <<>>
    /\ sess_entry = <<>>
    /\ sess_written = <<>>
    /\ sess_body_committed = 0
    /\ sess_raised = "none"
    /\ sess_closed = FALSE

\* the session's view: what was committed, then what the body flushed since
SessionView == sess_db \o SubSeq(sess_written, sess_body_committed + 1, Len(sess_written))

\* session = Session(); yield session
SessionEnter ==
    /\ sess_pc \in {"outside", "left"}
    /\ Len(sess_db) < MaxStored
    /\ \E w \in BOOLEAN : sess_write_enabled' = w
    /\ sess_pc' = "body"
    /\ sess_entry' = sess_db
    /\ sess_written' = <<>>
    /\ sess_body_committed' = 0
    /\ sess_raised' = "none"
    /\ sess_closed' = FALSE
    /\ UNCHANGED << reset_vars, upload_vars, voice_vars, chunker_vars, inserter_vars, chat_vars, retriever_vars, merge_vars, sess_db >>

\* the body: session.add(row); session.flush()
SessionWrite ==
    /\ sess_pc = "body"
    /\ Len(sess_written) < MaxScopeWrites
    /\ \E r \in ScopeRows : sess_written' = Append(sess_written, r)
    /\ UNCHANGED << reset_vars, upload_vars, voice_vars, chunker_vars, inserter_vars, chat_vars, retriever_vars, merge_vars,
                    sess_pc, sess_write_enabled, sess_db, sess_entry, sess_body_committed,
                    sess_raised, sess_closed >>

\* the body of flush_to_db, entered with write_enabled=False: session.commit()
SessionBodyCommit ==
    /\ sess_pc = "body"
    /\ ~sess_write_enabled
    /\ sess_body_committed < Len(sess_written)
    /\ sess_db' = SessionView
    /\ sess_body_committed' = Len(sess_written)
    /\ UNCHANGED << reset_vars, upload_vars, voice_vars, chunker_vars, inserter_vars, chat_vars, retriever_vars, merge_vars,
                    sess_pc, sess_write_enabled, sess_entry, sess_written, sess_raised,
                    sess_closed >>

\* a statement of the body raises e: rollback (for an Exception), re-raise, close
SessionRaise ==
    /\ sess_pc = "body"
    /\ \E e \in ScopeExceptions : sess_raised' = e
    /\ sess_db' = session_scope(sess_write_enabled, TRUE, sess_db, SessionView)
    /\ sess_closed' = TRUE
    /\ sess_pc' = "left"
    /\ UNCHANGED << reset_vars, upload_vars, voice_vars, chunker_vars, inserter_vars, chat_vars, retriever_vars, merge_vars,
                    sess_write_enabled, sess_entry, sess_written, sess_body_committed >>

\* the body completes; with write_enabled the commit follows, which may raise
SessionExit ==
    /\ sess_pc = "body"
    /\ \E commit_ok \in BOOLEAN :
         /\ ~commit_ok => sess_write_enabled
         /\ sess_db' = session_scope(sess_write_enabled, ~commit_ok, sess_db, SessionView)
         /\ sess_raised' = IF commit_ok THEN "none" ELSE "Exception"
    /\ sess_closed' = TRUE
    /\ sess_pc' = "left"
    /\ UNCHANGED << reset_vars, upload_vars, voice_vars, chunker_vars, inserter_vars, chat_vars, retriever_vars, merge_vars,
                    sess_write_enabled, sess_entry, sess_written, sess_body_committed >>

NextSession == SessionEnter \/ SessionWrite \/ SessionBodyCommit \/ SessionRaise \/ SessionExit

\* ------------------------------------------------------------------------
\* the voice websocket: producer, its run_generation tasks, consumer
\* ------------------------------------------------------------------------
MaxInputs == 3
MaxWavs == 1

\* asyncio.create_task(run_generation(...)): scheduled, not yet started
NewTask == [state |-> "created", cancel_requested |-> FALSE, wavs |-> 0]

\* Task.done()
done(task) == task.state \in {"done", "cancelled", "failed"}

\* mutant of StillRunning: the producer never finds a task running
NeverStillRunning(tasks, g) == FALSE

\* generation_task and not generation_task.done()
StillRunning(tasks, g) == g # 0 /\ ~done(tasks[g])

\* generation_task.cancel()
Cancel(tasks, g) == [tasks EXCEPT ![g].cancel_requested = TRUE]

InitVoice ==
    /\ prod_pc = "receive"
    /\ generation_task = 0
    /\ gen_tasks = <<>>
    /\ out_q = <<>>
    /\ voice_inputs = 0

\* producer: websocket.receive_bytes() returns audio, lines 127-138
VoiceAudio ==
    /\ prod_pc = "receive"
    /\ voice_inputs < MaxInputs
    /\ voice_inputs' = voice_inputs + 1
    /\ IF StillRunning(gen_tasks, generation_task)
       THEN /\ gen_tasks' = Cancel(gen_tasks, generation_task)
            /\ prod_pc' = "new_await"
            /\ UNCHANGED generation_task
       ELSE /\ gen_tasks' = Append(gen_tasks, NewTask)
            /\ generation_task' = Len(gen_tasks) + 1
            /\ UNCHANGED prod_pc
    /\ UNCHANGED << reset_vars, upload_vars, chunker_vars, inserter_vars, chat_vars, retriever_vars, merge_vars,
                    session_vars, out_q >>

\* producer: websocket.receive_bytes() returns b"STOP", lines 106-123
VoiceStop ==
    /\ prod_pc = "receive"
    /\ voice_inputs < MaxInputs
    /\ voice_inputs' = voice_inputs + 1
    /\ IF StillRunning(gen_tasks, generation_task)
       THEN /\ gen_tasks' = Cancel(gen_tasks, generation_task)
            /\ prod_pc' = "stop_await"
            /\ UNCHANGED << generation_task, out_q >>
       ELSE /\ out_q' = << << 0, "" >> >>
            /\ generation_task' = 0
            /\ UNCHANGED << gen_tasks, prod_pc >>
    /\ UNCHANGED << reset_vars, upload_vars, chunker_vars, inserter_vars, chat_vars, retriever_vars, merge_vars,
                    session_vars >>

\* producer: `await generation_task` returns or raises CancelledError, which is
\* passed over; then lines 136-138, or lines 114-123 after STOP
VoiceAwaited ==
    /\ prod_pc \in {"new_await", "stop_await"}
    /\ done(gen_tasks[generation_task])
    /\ IF prod_pc = "new_await"
       THEN /\ gen_tasks' = Append(gen_tasks, NewTask)
            /\ generation_task' = Len(gen_tasks) + 1
            /\ UNCHANGED out_q
       ELSE /\ out_q' = << << 0, "" >> >>
            /\ generation_task' = 0
            /\ UNCHANGED gen_tasks
    /\ prod_pc' = "receive"
    /\ UNCHANGED << reset_vars, upload_vars, chunker_vars, inserter_vars, chat_vars, retriever_vars, merge_vars,
                    session_vars, voice_inputs >>

\* producer: websocket.receive_bytes() raises WebSocketDisconnect, lines 140-143
VoiceDisconnect ==
    /\ prod_pc = "receive"
    /\ gen_tasks' = IF StillRunning(gen_tasks, generation_task)
                    THEN Cancel(gen_tasks, generation_task) ELSE gen_tasks
    /\ out_q' = Append(out_q, << 0, "" >>)
    /\ prod_pc' = "ended"
    /\ UNCHANGED << reset_vars, upload_vars, chunker_vars, inserter_vars, chat_vars, retriever_vars, merge_vars,
                    session_vars, generation_task, voice_inputs >>

\* the event loop resumes task t with CancelledError: a task that never ran ends
\* at once, a running one passes through the except clause of run_generation
TaskCancelled(t) ==
    /\ ~done(gen_tasks[t])
    /\ gen_tasks[t].cancel_requested
    /\ gen_tasks' = [gen_tasks EXCEPT ![t].state = "cancelled"]
    /\ out_q' = IF gen_tasks[t].state = "created" THEN out_q ELSE Append(out_q, << t, "" >>)
    /\ UNCHANGED << reset_vars, upload_vars, chunker_vars, inserter_vars, chat_vars, retriever_vars, merge_vars,
                    session_vars, prod_pc, generation_task, voice_inputs >>

\* the event loop resumes task t: run_generation up to its next await
TaskStep(t) ==
    /\ ~done(gen_tasks[t])
    /\ ~gen_tasks[t].cancel_requested
    /\ \/ /\ gen_tasks[t].state = "created"
          /\ gen_tasks' = [gen_tasks EXCEPT ![t].state = "transcribing"]
          /\ UNCHANGED out_q
       \/ /\ gen_tasks[t].state = "transcribing"
          /\ gen_tasks' = [gen_tasks EXCEPT ![t].state = "synthesising"]
          /\ UNCHANGED out_q
       \/ /\ gen_tasks[t].state = "synthesising"
          /\ gen_tasks[t].wavs < MaxWavs
          /\ gen_tasks' = [gen_tasks EXCEPT ![t].wavs = @ + 1]
          /\ out_q' = Append(out_q, << t, "wav" >>)
       \/ /\ gen_tasks[t].state = "synthesising"
          /\ gen_tasks' = [gen_tasks EXCEPT ![t].state = "done"]
          /\ out_q' = Append(out_q, << t, "" >>)
       \/ /\ gen_tasks[t].state \in {"transcribing", "synthesising"}
          /\ gen_tasks' = [gen_tasks EXCEPT ![t].state = "failed"]
          /\ UNCHANGED out_q
    /\ UNCHANGED << reset_vars, upload_vars, chunker_vars, inserter_vars, chat_vars, retriever_vars, merge_vars,
                    session_vars, prod_pc, generation_task, voice_inputs >>

\* consumer: wav = await out_q.get()
VoiceConsume ==
    /\ out_q # <<>>
    /\ out_q' = Tail(out_q)
    /\ UNCHANGED << reset_vars, upload_vars, chunker_vars, inserter_vars, chat_vars, retriever_vars, merge_vars,
                    session_vars, prod_pc, generation_task, gen_tasks, voice_inputs >>

NextVoice ==
    \/ VoiceAudio
    \/ VoiceStop
    \/ VoiceAwaited
    \/ VoiceDisconnect
    \/ \E t \in 1..Len(gen_tasks) : TaskCancelled(t)
    \/ \E t \in 1..Len(gen_tasks) : TaskStep(t)
    \/ VoiceConsume

\* ------------------------------------------------------------------------
\* Knowledge-base uploads (api/knowledgebase/upload.py): request handlers and
\* worker threads around the queue, the in-progress set and queue_lock
\* ------------------------------------------------------------------------
CONCURRENCY_LIMIT == 2
QUEUE_LIMIT == 1
MaxUploads == 5

KbThread(kind, pc, job_id) ==
    [kind |-> kind, pc |-> pc, job_id |-> job_id, new_status |-> "none", in_prog |-> {}]

InitUpload ==
    /\ queue = <<>>
    /\ in_progress = {}
    /\ queue_lock = FALSE
    /\ jobs = <<>>
    /\ started = <<>>
    /\ uploads = 0
    /\ kb_threads = EmptyBag

\* mutant of LockAcquired: the critical sections are entered without the lock
LockIgnored(lock) == TRUE

\* `with queue_lock:` is entered when nobody holds the lock
LockAcquired(lock) == ~lock

\* kb_threads once thread th has moved on to be thread th2
Moved(threads, th, th2) == (threads (-) SetToBag({th})) (+) SetToBag({th2})

\* kb_threads once thread th has returned
Ended(threads, th) == threads (-) SetToBag({th})

\* upload_file up to the call of _enqueue_job
UploadFile ==
    /\ uploads < MaxUploads
    /\ uploads' = uploads + 1
    /\ kb_threads' = kb_threads (+) SetToBag({KbThread("upload", "enqueue_wait", 0)})
    /\ UNCHANGED << queue, in_progress, queue_lock, jobs, started >>
    /\ UNCHANGED << reset_vars, chunker_vars, inserter_vars, chat_vars, retriever_vars, merge_vars, session_vars, voice_vars >>

\* _enqueue_job, lines 48-51: the lock is taken and the queue length checked;
\* a full queue raises 503 (the lock is released, no background task is added)
EnqueueCheck(th) ==
    /\ th.pc = "enqueue_wait"
    /\ LockAcquired(queue_lock)
    /\ IF Len(queue) >= QUEUE_LIMIT
         THEN /\ kb_threads' = Ended(kb_threads, th)
              /\ UNCHANGED queue_lock
         ELSE /\ kb_threads' = Moved(kb_threads, th, [th EXCEPT !.pc = "enqueue_locked"])
              /\ queue_lock' = TRUE
    /\ UNCHANGED << queue, in_progress, jobs, started, uploads >>
    /\ UNCHANGED << reset_vars, chunker_vars, inserter_vars, chat_vars, retriever_vars, merge_vars, session_vars, voice_vars >>

\* _enqueue_job, lines 52-63: a fresh job id is stored as queued and appended;
\* upload_file then adds _maybe_start_next_job as a background task
EnqueueAppend(th) ==
    /\ th.pc = "enqueue_locked"
    /\ jobs' = Append(jobs, "queued")
    /\ started' = Append(started, 0)
    /\ queue' = Append(queue, Len(jobs) + 1)
    /\ queue_lock' = FALSE
    /\ kb_threads' = Moved(kb_threads, th,
                           [th EXCEPT !.pc = "start_wait", !.job_id = Len(jobs) + 1])
    /\ UNCHANGED << in_progress, uploads >>
    /\ UNCHANGED << reset_vars, chunker_vars, inserter_vars, chat_vars, retriever_vars, merge_vars, session_vars, voice_vars >>

\* _maybe_start_next_job, lines 100-102: the lock is taken, in_prog is read
StartRead(th) ==
    /\ th.pc = "start_wait"
    /\ LockAcquired(queue_lock)
    /\ queue_lock' = TRUE
    /\ kb_threads' = Moved(kb_threads, th,
                           [th EXCEPT !.pc = "start_locked", !.in_prog = in_progress])
    /\ UNCHANGED << queue, in_progress, jobs, started, uploads >>
    /\ UNCHANGED << reset_vars, chunker_vars, inserter_vars, chat_vars, retriever_vars, merge_vars, session_vars, voice_vars >>

\* _maybe_start_next_job, lines 103-111: nothing to do, or the head of the
\* queue is moved to the in-progress set and handed to a new thread
StartNext(th) ==
    /\ th.pc = "start_locked"
    /\ queue_lock' = FALSE
    /\ IF Cardinality(th.in_prog) >= CONCURRENCY_LIMIT \/ queue = <<>>
         THEN /\ kb_threads' = Ended(kb_threads, th)
              /\ UNCHANGED << queue, in_progress, jobs, started >>
         ELSE /\ queue' = Tail(queue)
              /\ in_progress' = th.in_prog \cup {Head(queue)}
              /\ jobs' = [jobs EXCEPT ![Head(queue)] = "processing"]
              /\ started' = [started EXCEPT ![Head(queue)] = @ + 1]
              /\ kb_threads' = Moved(kb_threads, th, KbThread("worker", "running", Head(queue)))
    /\ UNCHANGED uploads
    /\ UNCHANGED << reset_vars, chunker_vars, inserter_vars, chat_vars, retriever_vars, merge_vars, session_vars, voice_vars >>

\* _process_job, lines 66-88: the insertion ends, completed or failed
ProcessInsert(th) ==
    /\ th.pc = "running"
    /\ \E new_status \in {"completed", "failed"} :
          kb_threads' = Moved(kb_threads, th,
                              [th EXCEPT !.pc = "finish_wait", !.new_status = new_status])
    /\ UNCHANGED << queue, in_progress, queue_lock, jobs, started, uploads >>
    /\ UNCHANGED << reset_vars, chunker_vars, inserter_vars, chat_vars, retriever_vars, merge_vars, session_vars, voice_vars >>

\* _process_job, lines 90-91: the lock is taken, in_prog is read
FinishRead(th) ==
    /\ th.pc = "finish_wait"
    /\ LockAcquired(queue_lock)
    /\ queue_lock' = TRUE
    /\ kb_threads' = Moved(kb_threads, th,
                           [th EXCEPT !.pc = "finish_locked", !.in_prog = in_progress])
    /\ UNCHANGED << queue, in_progress, jobs, started, uploads >>
    /\ UNCHANGED << reset_vars, chunker_vars, inserter_vars, chat_vars, retriever_vars, merge_vars, session_vars, voice_vars >>

\* _process_job, lines 92-97: the job leaves the in-progress set, its status is
\* stored, the lock is released and _maybe_start_next_job is called
FinishWrite(th) ==
    /\ th.pc = "finish_locked"
    /\ in_progress' = th.in_prog \ {th.job_id}
    /\ jobs' = [jobs EXCEPT ![th.job_id] = th.new_status]
    /\ queue_lock' = FALSE
    /\ kb_threads' = Moved(kb_threads, th,
                           [th EXCEPT !.pc = "start_wait", !.in_prog = {}, !.new_status = "none"])
    /\ UNCHANGED << queue, started, uploads >>
    /\ UNCHANGED << reset_vars, chunker_vars, inserter_vars, chat_vars, retriever_vars, merge_vars, session_vars, voice_vars >>



NextUpload ==
    \/ UploadFile
    \/ \E th \in BagToSet(kb_threads) : EnqueueCheck(th)
    \/ \E th \in BagToSet(kb_threads) : EnqueueAppend(th)
    \/ \E th \in BagToSet(kb_threads) : StartRead(th)
    \/ \E th \in BagToSet(kb_threads) : StartNext(th)
    \/ \E th \in BagToSet(kb_threads) : ProcessInsert(th)
    \/ \E th \in BagToSet(kb_threads) : FinishRead(th)
    \/ \E th \in BagToSet(kb_threads) : FinishWrite(th)

\* ------------------------------------------------------------------------
\* Password reset by PIN (api/authentication/password_reset.py), for one
\* identifier: the cache entries otp:, tries: and cooldown:, the handlers of
\* /request and /reset on the event loop, and the expiry of the entries
\* ------------------------------------------------------------------------
MAX_PIN_ATTEMPTS == 5
MaxResets == 7
MaxPinRequests == 2
Pins == {1, 2}

\* a cache entry that is absent (cache.get returns None)
Absent == 0 - 1

InitReset ==
    /\ otp = Absent
    /\ tries = Absent
    /\ cooldown = FALSE
    /\ loop_busy = FALSE
    /\ reset_handlers = EmptyBag
    /\ resets = 0
    /\ pin_requests = 0
    /\ compared = 0
    /\ last_reset = 0

\* mutant of HandlerRuns: a handler is started while another one is mid-way
HandlerPreempts(busy) == TRUE

\* reset_password and request_password_reset are `async def` without any
\* await: the event loop starts a handler only when none is mid-way
HandlerRuns(busy) == ~busy

\* request_password_reset: 429 under cooldown, 404 for an unknown user, else
\* _create_and_store_pin; a failed SMS deletes the PIN and the cooldown
request_password_reset ==
    /\ pin_requests < MaxPinRequests
    /\ HandlerRuns(loop_busy)
    /\ pin_requests' = pin_requests + 1
    /\ last_reset' = 0
    /\ IF cooldown
         THEN UNCHANGED << otp, tries, cooldown, compared >>
         ELSE \E user_exists \in BOOLEAN, sms_sent \in BOOLEAN, pin \in Pins :
                 IF ~user_exists
                   THEN UNCHANGED << otp, tries, cooldown, compared >>
                   ELSE /\ otp' = IF sms_sent THEN pin ELSE Absent
                        /\ cooldown' = sms_sent
                        /\ tries' = 0
                        /\ compared' = 0
    /\ UNCHANGED << loop_busy, reset_handlers, resets >>
    /\ UNCHANGED << upload_vars, chunker_vars, inserter_vars, chat_vars, retriever_vars, merge_vars, session_vars, voice_vars >>

\* a /reset request for the identifier reaches the server with a PIN
ResetArrives ==
    /\ resets < MaxResets
    /\ resets' = resets + 1
    /\ \E pin \in Pins :
          reset_handlers' = reset_handlers (+) SetToBag({[pc |-> "pending", pin |-> pin, attempts |-> 0]})
    /\ last_reset' = 0
    /\ UNCHANGED << otp, tries, cooldown, loop_busy, pin_requests, compared >>
    /\ UNCHANGED << upload_vars, chunker_vars, inserter_vars, chat_vars, retriever_vars, merge_vars, session_vars, voice_vars >>

\* reset_password, lines 292-306: attempts = (cache.get(tries_key) or 0) + 1
ResetRead(h) ==
    /\ h.pc = "pending"
    /\ HandlerRuns(loop_busy)
    /\ loop_busy' = TRUE
    /\ reset_handlers' = (reset_handlers (-) SetToBag({h}))
                           (+) SetToBag({[h EXCEPT !.pc = "counted",
                                                   !.attempts = (IF tries = Absent THEN 0 ELSE tries) + 1]})
    /\ last_reset' = 0
    /\ UNCHANGED << otp, tries, cooldown, resets, pin_requests, compared >>
    /\ UNCHANGED << upload_vars, chunker_vars, inserter_vars, chat_vars, retriever_vars, merge_vars, session_vars, voice_vars >>

\* reset_password, lines 307-331: 429 over MAX_PIN_ATTEMPTS; else the counter
\* is stored and the PIN compared: 400 when it is absent or different, 404
\* when the user is not found, else the password is set and both keys deleted
ResetCompare(h) ==
    /\ h.pc = "counted"
    /\ loop_busy' = FALSE
    /\ reset_handlers' = reset_handlers (-) SetToBag({h})
    /\ IF h.attempts > MAX_PIN_ATTEMPTS
         THEN /\ last_reset' = 429
              /\ UNCHANGED << otp, tries, compared >>
         ELSE /\ compared' = IF otp = Absent THEN compared ELSE compared + 1
              /\ IF otp = Absent \/ otp # h.pin
                   THEN /\ last_reset' = 400
                        /\ tries' = h.attempts
                        /\ UNCHANGED otp
                   ELSE \E user_exists \in BOOLEAN :
                           IF user_exists
                             THEN /\ last_reset' = 200
                                  /\ otp' = Absent
                                  /\ tries' = Absent
                             ELSE /\ last_reset' = 404
                                  /\ tries' = h.attempts
                                  /\ UNCHANGED otp
    /\ UNCHANGED << cooldown, resets, pin_requests >>
    /\ UNCHANGED << upload_vars, chunker_vars, inserter_vars, chat_vars, retriever_vars, merge_vars, session_vars, voice_vars >>

\* the entries expire: the cooldown (3 minutes) before the PIN (15 minutes)
\* stored with it, the counter (set after the PIN, set again by every
\* attempt) not before the PIN
Expire ==
    /\ \/ /\ cooldown
          /\ cooldown' = FALSE
          /\ UNCHANGED << otp, tries >>
       \/ /\ otp # Absent
          /\ ~cooldown
          /\ otp' = Absent
          /\ UNCHANGED << cooldown, tries >>
       \/ /\ tries # Absent
          /\ otp = Absent
          /\ tries' = Absent
          /\ UNCHANGED << cooldown, otp >>
    /\ last_reset' = 0
    /\ UNCHANGED << loop_busy, reset_handlers, resets, pin_requests, compared >>
    /\ UNCHANGED << upload_vars, chunker_vars, inserter_vars, chat_vars, retriever_vars, merge_vars, session_vars, voice_vars >>

NextReset ==
    \/ request_password_reset
    \/ ResetArrives
    \/ \E h \in BagToSet(reset_handlers) : ResetRead(h)
    \/ \E h \in BagToSet(reset_handlers) : ResetCompare(h)
    \/ Expire

Init == InitChunker /\ InitInserter /\ InitHistory /\ InitOrchestrator /\ InitRetriever /\ InitMerge
        /\ InitSession /\ InitVoice /\ InitUpload /\ InitReset

SpecChunker == Init /\ [][NextChunker]_vars
SpecInserter == Init /\ [][NextInserter]_vars
SpecHistory == Init /\ [][NextHistory]_vars
SpecReload == Init /\ [][NextReload]_vars
SpecChat == Init /\ [][NextChat]_vars
SpecEndpoint == Init /\ [][NextEndpoint]_vars
SpecRetriever == Init /\ [][NextRetriever]_vars
SpecMerge == Init /\ [][NextMerge]_vars
SpecSession == Init /\ [][NextSession]_vars
SpecVoice == Init /\ [][NextVoice]_vars
SpecUpload == Init /\ [][NextUpload]_vars
SpecReset == Init /\ [][NextReset]_vars

\* C1: every chunk returned by GoldenChunker.chunk is at most max_size long,
\* for every text and every configuration the constructor accepts
ChunksWithinMaxSize ==
    chunk_pc = "done" =>
        \A i \in 1..Len(chunk_out.chunks) : Len(chunk_out.chunks[i]) <= chunker.max_size

\* witness of C1: an oversize section without a splitting heading went through
\* the fallback splitter, which prefixed its heading line to every piece
FallbackWithHeaderReturned ==
    /\ chunk_pc = "done"
    /\ ~chunk_out.raised
    /\ Len(text) > chunker.max_size
    /\ split_by_section(text) = <<text>>
    /\ HeaderPrefixEnd(text, 1) > 0
    /\ Len(chunk_out.chunks) >= 2
    /\ \A i \in 1..Len(chunk_out.chunks) : Head(chunk_out.chunks[i]) = Hash

\* C2: once insert has returned or raised, the Document row it created is not in
\* status processing: it is ok or failed
DocumentNeverLeftProcessing ==
    (ins_pc \in {"returned", "raised"} /\ kb.file.status # "none")
        => kb.file.status \in {"ok", "failed"}

\* C5: when insert has failed after creating the Document row, no chunk row of
\* any kind exists; chunk rows exist only together with status ok, and then all
\* of them do (they are committed by the one final transaction)
NoPartialChunkRows ==
    /\ ins_pc \in {"handler", "raised"} => kb.rows = <<>>
    /\ kb.rows # <<>> =>
          /\ kb.file.status = "ok"
          /\ ins_pc = "returned"
          /\ \A b \in 1..Len(big_chunk_texts) :
                \E i \in 1..Len(kb.rows) : kb.rows[i].kind = "big" /\ kb.rows[i].big_idx = b
          /\ Len(kb.rows) = Len(big_chunk_texts) + Len(work_items)

\* witness of C5: the final transaction raised after rows had been added to the
\* session, and insert has raised
FinalTransactionFailedMidway ==
    /\ ins_pc = "raised"
    /\ ins_failed_at = "persist"
    /\ ins_idx > 1
    /\ kb.file.status = "failed"

AbortedTurnPersistedAndMarked ==
    chat_pc = "aborted" =>
       /\ chat_call = "next" =>
             chat_raised = [type |-> "GenerationAborted", partial |-> token_acc]
       /\ (chat_call = "close" /\ persistence /\ chat_raised.type = "none") =>
             \E j \in 1..Len(chat_db.messages) :
                /\ chat_db.messages[j].id = turn.assistant_msg_id
                /\ chat_db.messages[j].role = "assistant"
                /\ chat_db.messages[j].content = token_acc
                /\ "aborted" \in chat_db.messages[j].context

\* C4: over any sequence of add, flush_to_db and maybe_summarise calls, an entry
\* marked persisted has exactly one row in the Message store, and no entry is
\* stored twice.
PersistedEntriesStoredExactlyOnce ==
    /\ \A i \in 1..Len(history.messages) :
          history.messages[i].persisted =>
             Cardinality({ j \in 1..Len(chat_db.messages) :
                             chat_db.messages[j].id = history.messages[i].id }) = 1
    /\ \A j, k \in 1..Len(chat_db.messages) :
          chat_db.messages[j].id = chat_db.messages[k].id => j = k

\* C7: maybe_summarise never evicts the most recent transcript entry: the last
\* entry before the call is still the last entry after it.
CompactionKeepsLastEntry ==
    [][ (chat_call' = "maybe_summarise" /\ history.messages # <<>>) =>
          /\ history'.messages # <<>>
          /\ history'.messages[Len(history'.messages)] =
                [history.messages[Len(history.messages)] EXCEPT
                    !.persisted = history'.messages[Len(history'.messages)].persisted,
                    !.db_id = history'.messages[Len(history'.messages)].db_id] ]_vars

\* a compaction evicted down to a single entry that is still over the threshold
EvictedDownToLastEntry ==
    /\ chat_call = "maybe_summarise"
    /\ history.conversation.token_budgeting_summary # <<>>
    /\ Len(history.messages) = 1
    /\ Len(chat_db.messages) > 1
    /\ token_count(history.messages, tokenizer_up) > TokenThreshold

\* C8: when maybe_summarise returns and leaves at least 2 transcript entries,
\* token_count() is at most token_threshold.
CompactedWithinThreshold ==
    (chat_call = "maybe_summarise" /\ chat_raised.type = "none" /\ Len(history.messages) >= 2) =>
        token_count(history.messages, tokenizer_up) <= TokenThreshold

\* a compaction evicted entries and left two within the threshold
EvictedDownToTwoEntries ==
    /\ chat_call = "maybe_summarise"
    /\ history.conversation.token_budgeting_summary # <<>>
    /\ chat_raised.type = "none"
    /\ Len(history.messages) = 2
    /\ Len(chat_db.messages) > 2
    /\ token_count(history.messages, tokenizer_up) <= TokenThreshold

\* the relevance_score the rerank service answered for a candidate, looked up
\* by the candidate's batch and index in the request
GivenScore(big_chunk_id) ==
    LET p == CHOOSE i \in 1..Len(top_big_chunks) : top_big_chunks[i] = big_chunk_id
        answer == rerank_responses[((p - 1) \div RerankBatchSize) + 1]
    IN  answer[CHOOSE i \in 1..Len(answer) :
                  answer[i].index = (p - 1) % RerankBatchSize].relevance_score

\* C9: retrieve returns at most `limit` items, ordered by rerank score
\* descending, each item carrying the score the rerank service gave to the
\* item's chunk.
RetrievedByRerankScore ==
    ret_pc = "done" =>
       /\ Len(results) <= retriever.limit
       /\ \A i, j \in 1..Len(results) :
             i < j => results[i].rerank_score >= results[j].rerank_score
       /\ \A i \in 1..Len(results) : results[i].rerank_score = GivenScore(results[i].chunk)

\* two candidates with equal fused scores, answered by the service out of index
\* order, come back in the order of their rerank scores
RerankReordersEqualFused ==
    /\ ret_pc = "done"
    /\ Len(top_big_chunks) = 2
    /\ Len(results) = 2
    /\ results[1].combined_score = results[2].combined_score
    /\ results[1].rerank_score > results[2].rerank_score
    /\ results[1].chunk = top_big_chunks[2]
    /\ rerank_responses[1][1].index = 1

\* the fused score the specification gives a big chunk, from the two recorded
\* similarity dictionaries
FusedScoreOf(b) ==
    (IF DictHas(small_chunk_scores, b)
       THEN retriever.alpha * DictGet(small_chunk_scores, b, 0) ELSE 0)
    + (IF DictHas(summary_scores, b)
         THEN (10 - retriever.alpha) * DictGet(summary_scores, b, 0) ELSE 0)

InSomeIndex(b) == DictHas(small_chunk_scores, b) \/ DictHas(summary_scores, b)

Candidates == { top_big_chunks[i] : i \in 1..Len(top_big_chunks) }

\* C10: the fused score of a big chunk is alpha * small + (1 - alpha) * summary,
\* a missing term counting for nothing, and the chunks of a single index are
\* ranked with the others: the candidates are the prefetch_limit best fused
\* scores of all of them.
FusedScoresAsSpecified ==
    ret_pc \in {"rerank", "done"} =>
       /\ \A b \in 1..MaxBig :
             /\ InSomeIndex(b) <=> DictHas(big_chunk_scores, b)
             /\ InSomeIndex(b) => DictGet(big_chunk_scores, b, 0) = FusedScoreOf(b)
       /\ Cardinality(Candidates) =
             SetMin({retriever.prefetch_limit, Cardinality({ b \in 1..MaxBig : InSomeIndex(b) })})
       /\ \A b \in 1..MaxBig, c \in Candidates :
             (InSomeIndex(b) /\ b \notin Candidates) => FusedScoreOf(c) >= FusedScoreOf(b)

\* a chunk found by its small chunks only is ranked first, ahead of a chunk
\* found in both indices
SingleIndexChunkRankedFirst ==
    /\ ret_pc \in {"rerank", "done"}
    /\ retriever.alpha = 6
    /\ Len(top_big_chunks) = 2
    /\ DictHas(small_chunk_scores, top_big_chunks[1])
    /\ ~DictHas(summary_scores, top_big_chunks[1])
    /\ DictHas(small_chunk_scores, top_big_chunks[2])
    /\ DictHas(summary_scores, top_big_chunks[2])
    /\ DictGet(small_chunk_scores, top_big_chunks[2], 0) > 0
    /\ DictGet(summary_scores, top_big_chunks[2], 0) > 0

\* C11: every item retrieve returns is a big chunk of a Document in status ok;
\* chunks of Documents in status processing or failed are never candidates nor
\* results.
OnlyOkDocumentsRetrieved ==
    /\ \A i \in 1..Len(top_big_chunks) : doc_status[top_big_chunks[i]] = "ok"
    /\ \A i \in 1..Len(results) : doc_status[results[i].chunk] = "ok"

\* a query returned a chunk although the nearest row of each index belongs to
\* a Document that is failed or still processing
NearestRowsOfOtherStatusSkipped ==
    /\ ret_pc = "done"
    /\ Len(results) >= 1
    /\ \E r \in index_rows, q \in index_rows :
          /\ r.model = "summary" /\ q.model = "small_chunk"
          /\ r.distance = 0 /\ q.distance = 0
          /\ doc_status[r.big_chunk_id] = "failed"
          /\ doc_status[q.big_chunk_id] = "failed"
    /\ \A r \in index_rows : doc_status[r.big_chunk_id] = "ok" => r.distance > 0

\* C12: in the small-chunk merge step, in both directions, two adjacent chunks are
\* merged only if the merged length is at most max_size: at every point of the loop
\* and in what the step returns, every chunk made of two or more of the given
\* chunks has length at most max_size.
MergedChunksWithinMaxSize ==
    \A k \in 1..Len(merged) :
        merge_parts[k] >= 2 => Len(merged[k]) <= merge_cfg.max_size

\* The step has returned: one chunk is made of two given chunks, and a chunk below min_size
\* was left as it is because merging it would have passed max_size.
MergedAndRefused ==
    /\ merge_pc = "done"
    /\ \E k \in 1..Len(merged) : merge_parts[k] >= 2
    /\ \E k \in 1..Len(merged) :
         /\ Len(merged[k]) < merge_cfg.min_size
         /\ IF merge_cfg.merge_reversed
            THEN k > 1 /\ Len(merged[k - 1]) + Len(merged[k]) > merge_cfg.max_size
            ELSE k < Len(merged) /\ Len(merged[k]) + Len(merged[k + 1]) > merge_cfg.max_size
\* C13: if the consumer abandons a streaming reply after receiving some fragments
\* and the caller then calls close(), the turn is finalised: the user entry and
\* the accumulated partial assistant text are in the transcript, and with
\* persistence they are in the Message store.
AbandonedTurnFinalisedByClose ==
    (chat_pc = "abandoned" /\ chat_call = "close" /\ chat_raised.type = "none"
       /\ Len(token_acc) >= 1) =>
       /\ \E i \in 1..Len(history.messages) :
             /\ history.messages[i].id = turn.user_msg_id
             /\ history.messages[i].role = "user"
       /\ \E i \in 1..Len(history.messages) :
             /\ history.messages[i].id = turn.assistant_msg_id
             /\ history.messages[i].content = token_acc
       /\ persistence =>
             \E j \in 1..Len(chat_db.messages) :
                /\ chat_db.messages[j].id = turn.assistant_msg_id
                /\ chat_db.messages[j].content = token_acc
\* C14: a session_scope entered with write_enabled=False never commits: when it
\* is left the database holds what it held at entry and what the body itself
\* committed. A session_scope entered with write_enabled=True commits exactly
\* when its body completes without an exception, and then all the rows written
\* in the scope; on an exception none of them is kept, the same exception
\* reaches the caller, and the session is closed in every case.
ScopeCommitsOnlyOnWriteEnabledSuccess ==
    /\ (sess_pc = "body" /\ sess_write_enabled) => sess_db = sess_entry
    /\ sess_pc = "left" =>
          /\ sess_closed
          /\ ~sess_write_enabled =>
                sess_db = sess_entry \o SubSeq(sess_written, 1, sess_body_committed)
          /\ (sess_write_enabled /\ sess_raised = "none") =>
                sess_db = sess_entry \o sess_written
          /\ (sess_write_enabled /\ sess_raised # "none") => sess_db = sess_entry

\* a write-enabled scope that had flushed two rows was left by an exception,
\* over a table that an earlier scope had filled
WriteScopeRolledBack ==
    /\ sess_pc = "left"
    /\ sess_write_enabled
    /\ sess_raised = "Exception"
    /\ Len(sess_written) = 2
    /\ sess_entry # <<>>
    /\ sess_db = sess_entry
\* C15: in the voice websocket producer, a new audio input that arrives while the
\* previous generation task is still running has that task cancelled and awaited
\* to its end before the new task is created: every task but the newest has
\* ended, so at most one generation task of the connection is in flight, and
\* while the producer waits the awaited task has its cancellation requested.
AtMostOneGenerationInFlight ==
    /\ \A t \in 1..Len(gen_tasks) : t < Len(gen_tasks) => done(gen_tasks[t])
    /\ Cardinality({ t \in 1..Len(gen_tasks) : ~done(gen_tasks[t]) }) <= 1
    /\ prod_pc \in {"new_await", "stop_await"} =>
          /\ generation_task = Len(gen_tasks)
          /\ gen_tasks[generation_task].cancel_requested

\* the first task was cancelled while it produced audio, and the task created
\* for the next input is running
CancelledThenReplaced ==
    /\ Len(gen_tasks) >= 2
    /\ gen_tasks[1].state = "cancelled"
    /\ gen_tasks[1].wavs >= 1
    /\ gen_tasks[2].state = "synthesising"
RewriteIsIdentityOnEmptyTranscript ==
    /\ (chat_call = "rewrite" /\ utils_call.given = 0) =>
          /\ utils_call.result = utils_call.query
          /\ ~utils_call.invoked
          /\ chat_raised = NoException
    /\ (chat_call = "receive" /\ utils_call.given = 0) =>
          /\ utils_call.result = utils_call.query
          /\ ~utils_call.invoked
          /\ utils_call.failed_at # "rewrite"

\* the first turn of a conversation was received on the empty transcript and
\* finalised: the query that went to the retriever is the user's text
FirstTurnRetrievedWithRawText ==
    /\ chat_call = "receive"
    /\ utils_call.given = 0
    /\ utils_call.failed_at = "none"
    /\ utils_call.result = <<"q">>
    /\ Len(history.messages) = 2
\* the identifiers under which the transcript h and the store d hold messages,
\* and the roles they hold under one identifier
HeldIds(h, d) ==
    { h.messages[i].id : i \in 1..Len(h.messages) }
      \cup { d.messages[j].id : j \in 1..Len(d.messages) }
RolesUnder(h, d, id) ==
    { h.messages[i].role : i \in { k \in 1..Len(h.messages) : h.messages[k].id = id } }
      \cup { d.messages[j].role : j \in { k \in 1..Len(d.messages) : d.messages[k].id = id } }
TurnHeldUnder(h, d, h2, d2, ids) ==
    /\ HeldIds(h2, d2) \ HeldIds(h, d) = {ids.user_id, ids.assistant_id}
    /\ RolesUnder(h2, d2, ids.user_id) = {"user"}
    /\ RolesUnder(h2, d2, ids.assistant_id) = {"assistant"}

\* C18: with include_ids, receive returns {user_id, assistant_id}; in blocking
\* mode the call that returns them, and in streaming mode the step that ends the
\* stream they were returned for, adds to the transcript and the store exactly
\* two messages, the user message under user_id and the assistant message under
\* assistant_id.
ReturnedIdsNameTheTurn ==
    [][ /\ (chat_call' = "receive" /\ chat_returned' # NoIds /\ chat_pc' # "streaming") =>
              TurnHeldUnder(history, chat_db, history', chat_db', chat_returned')
        /\ (chat_call' = "receive" /\ chat_returned' # NoIds /\ chat_pc' = "streaming") =>
              /\ chat_returned' = IdsOf(turn')
              /\ chat_returned'.user_id # chat_returned'.assistant_id
              /\ {chat_returned'.user_id, chat_returned'.assistant_id}
                    \cap HeldIds(history', chat_db') = {}
        /\ (chat_pc = "streaming" /\ chat_pc' \in {"finished", "aborted"}) =>
              TurnHeldUnder(history, chat_db, history', chat_db', IdsOf(turn)) ]_vars

\* a blocking turn and then a streamed turn have been received, and after close()
\* the store holds the four messages, the streamed turn's under the identifiers
\* that receive returned for it
BothTurnsStoredUnderTheirIds ==
    /\ chat_call = "close"
    /\ chat_pc = "finished"
    /\ Len(chat_db.messages) = 4
    /\ \E j \in 1..4 : /\ chat_db.messages[j].id = turn.user_msg_id
                       /\ chat_db.messages[j].role = "user"
    /\ \E j \in 1..4 : /\ chat_db.messages[j].id = turn.assistant_msg_id
                       /\ chat_db.messages[j].role = "assistant"
                       /\ chat_db.messages[j].content = token_acc

\* the entries of transcript msgs that transcript kept no longer holds
EvictedFrom(msgs, kept) ==
    { i \in 1..Len(msgs) : \A j \in 1..Len(kept) : kept[j].id # msgs[i].id }

\* C19: a maybe_summarise call that evicts entries has requested the summary over
\* the whole transcript it found, and every entry it evicts from memory has a
\* row in the Message store: no entry is evicted before it has been persisted.
EvictedEntriesArePersisted ==
    [][ (chat_call' = "maybe_summarise" /\ EvictedFrom(history.messages, history'.messages) # {}) =>
          /\ history'.conversation.token_budgeting_summary = SummaryOf(history.messages)
          /\ \A i \in EvictedFrom(history.messages, history'.messages) :
                \E j \in 1..Len(chat_db'.messages) :
                   chat_db'.messages[j].id = history.messages[i].id ]_vars

\* the identifier of a transcript entry: its id, or the db_id of a loaded entry
MessageId(m) == IF m.id # 0 THEN m.id ELSE m.db_id

\* C20: when maybe_summarise returns with a new summary, the Conversation, in
\* memory and in the store, holds the summary of the transcript the call found,
\* and its token_budgeting_message_id is the identifier of the first entry left
\* in the transcript.
CompactionRecordsOldestSurvivor ==
    [][ ( /\ chat_call' = "maybe_summarise"
          /\ chat_raised'.type = "none"
          /\ history'.conversation.token_budgeting_summary
                # history.conversation.token_budgeting_summary ) =>
          /\ history'.conversation.token_budgeting_summary = SummaryOf(history.messages)
          /\ chat_db'.conversation = history'.conversation
          /\ history'.conversation.token_budgeting_message_id # 0
          /\ history'.conversation.token_budgeting_message_id
                = MessageId(history'.messages[1]) ]_vars
\* C21: once a conversation has a title, no later turn changes it, whether the
\* turn is handled by the same ChatSystem or by one built for the stored
\* conversation: neither the stored title nor the one in memory changes.
TitleSetOnlyOnce ==
    [][ /\ chat_db.conversation.title # <<>> =>
              chat_db'.conversation.title = chat_db.conversation.title
        /\ (history.conversation.title # <<>> /\ history'.conversation.id # 0) =>
              history'.conversation.title = history.conversation.title ]_vars

\* C26: once the reply stream of a streaming request has been consumed to its
\* end, the user and assistant messages of the turn are in the Message store.
StreamedTurnStoredWhenDelivered ==
    (chat_call = "next" /\ chat_pc = "finished" /\ chat_raised.type = "none"
                        /\ token_acc # <<>>) =>
        /\ \E j \in 1..Len(chat_db.messages) : chat_db.messages[j].id = turn.user_msg_id
        /\ \E j \in 1..Len(chat_db.messages) : chat_db.messages[j].id = turn.assistant_msg_id
\* C22: whenever token_count() is at most token_threshold, maybe_summarise
\* returns without a generation call or a persistence call (nothing can raise,
\* the store is as before) and leaves the transcript and the Conversation's
\* summary and boundary marker as they were, whatever its callees would do.
NoCompactionWithinBudget ==
    \A o \in Outcomes(history) :
       token_count(history.messages, o.up) <= TokenThreshold =>
          maybe_summarise(history, chat_db, o) = Result(history, chat_db, FALSE, o.up)
\* the loaded messages of a transcript: its entries other than the synthetic one
LoadedMessages(msgs) == SelectSeq(msgs, LAMBDA m : m.role # "system")

\* the entries are the rows from position k + 1 on, in the order of the store
IsSuffixFrom(entries, rows, k) ==
    /\ Len(entries) = Len(rows) - k
    /\ \A i \in 1..Len(entries) :
          /\ entries[i].db_id = rows[k + i].id
          /\ entries[i].content = rows[k + i].content
          /\ entries[i].role = rows[k + i].role

\* no row before the boundary message is among the rows from position k + 1 on
NotBeforeBoundary(rows, k, marker) ==
    \A b \in 1..Len(rows) : rows[b].id = marker => k + 1 >= b

\* C23: after ChatHistory is constructed for a stored conversation, the loaded
\* messages are a most-recent suffix of the stored messages in their order, none
\* older than the boundary message, and when a summary is stored the synthetic
\* summary entry is the first entry of the transcript.
LoadedTranscriptIsBoundedSuffix ==
    chat_call = "load" =>
       /\ \E k \in 0..Len(chat_db.messages) :
             /\ IsSuffixFrom(LoadedMessages(history.messages), chat_db.messages, k)
             /\ NotBeforeBoundary(chat_db.messages, k,
                                  chat_db.conversation.token_budgeting_message_id)
       /\ chat_db.conversation.token_budgeting_summary # <<>> =>
             /\ history.messages # <<>>
             /\ history.messages[1] = SummaryEntry(chat_db.conversation.token_budgeting_summary)
\* the text is one section and has no heading of any level 1 to 6
HeadinglessSection(t) ==
    /\ split_by_section(t) = <<t>>
    /\ \A level \in 1..6 : HeadingStarts(t, 1, level) = <<>>

\* C24 as stated: a section longer than chunk_size with no heading of any level
\* is split by the fallback fixed-size splitter and not returned as one chunk.
HeadinglessSectionAlwaysSplit ==
    (chunk_pc = "done" /\ HeadinglessSection(text) /\ Len(text) > chunker.chunk_size) =>
        /\ chunk_out.chunks = split_text(text, chunker.chunk_size)
        /\ chunk_out.chunks # <<text>>

\* C24, amended: a section with no heading of any level goes to the fallback
\* fixed-size splitter when it is longer than max_size; when it is longer than
\* chunk_size but at most max_size it is returned as one chunk.
HeadinglessSectionSplitOverMaxSize ==
    (chunk_pc = "done" /\ HeadinglessSection(text) /\ Len(text) > chunker.chunk_size) =>
        /\ ~chunk_out.raised
        /\ Len(text) > chunker.max_size =>
              /\ chunk_out.chunks = split_text(text, chunker.chunk_size)
              /\ Len(chunk_out.chunks) >= 2
        /\ Len(text) <= chunker.max_size => chunk_out.chunks = <<text>>

\* a section with no heading, longer than chunk_size and within max_size, was
\* returned as one chunk
HeadinglessSectionKeptWhole ==
    /\ chunk_pc = "done"
    /\ HeadinglessSection(text)
    /\ Len(text) > chunker.chunk_size
    /\ Len(text) <= chunker.max_size
    /\ chunk_out.chunks = <<text>>
\* C25: whenever a generation task ends cancelled, whatever it was doing, the
\* empty-bytes sentinel is put on the output queue at that moment, behind
\* everything the task enqueued. After STOP and after a disconnect the
\* producer's own marker is counted for the task.
CancelledTaskLeavesSentinel ==
    [][ \A t \in 1..Len(gen_tasks) :
          (~done(gen_tasks[t]) /\ gen_tasks'[t].state = "cancelled") =>
             \/ out_q' = Append(out_q, << t, "" >>)
             \/ prod_pc \in {"stop_await", "ended"} ]_vars
\* chunk ch stands in t at position q
OccursAt(ch, t, q) == q + Len(ch) - 1 <= Len(t) /\ SubSeq(t, q, q + Len(ch) - 1) = ch

\* the chunks can be found in t one after the other at starts that never go
\* back, the first of them at p or later
RECURSIVE InDocumentOrder(_, _, _)
InDocumentOrder(chunks, t, p) ==
    \/ chunks = <<>>
    \/ \E q \in p..Len(t) : /\ OccursAt(Head(chunks), t, q)
                            /\ InDocumentOrder(Tail(chunks), t, q)

\* C27: chunk returns its chunks in document order. Stated for the runs where
\* every returned chunk is a verbatim piece of the input: some choice of where
\* each chunk stands in the input has starts that never decrease along the list.
ChunksInDocumentOrder ==
    (/\ chunk_pc = "done"
     /\ ~chunk_out.raised
     /\ \A i \in 1..Len(chunk_out.chunks) :
           \E q \in 1..Len(text) : OccursAt(chunk_out.chunks[i], text, q)) =>
        InDocumentOrder(chunk_out.chunks, text, 1)
\* the distances of the small chunks of big chunk b the query can return
SmallChunkDistances(b) ==
    { r.distance : r \in { e \in Eligible(index_rows, doc_status, "small_chunk") :
                              e.big_chunk_id = b } }

\* C28: the small-chunk similarity retrieve records for a big chunk is the
\* highest similarity of that big chunk's fetched small chunks, that of the
\* nearest one (rows are fetched nearest first, so the nearest small chunk of a
\* big chunk is among the fetched ones whenever one of them is).
SmallChunkScoreIsHighest ==
    [][ (ret_pc = "index" /\ ret_pc' # "index") =>
           \A i \in 1..Len(small_chunk_scores') :
              small_chunk_scores'[i].v =
                 Unit - SetMin(SmallChunkDistances(small_chunk_scores'[i].k)) ]_vars
\* C29: whatever the interleaving of uploads, job starts and job completions,
\* the in-progress set never holds more than CONCURRENCY_LIMIT job ids, the
\* queue never more than QUEUE_LIMIT, and no job id is handed to a worker
\* thread more than once.
UploadLimitsHold ==
    /\ Cardinality(in_progress) <= CONCURRENCY_LIMIT
    /\ Len(queue) <= QUEUE_LIMIT
    /\ \A j \in 1..Len(started) : started[j] <= 1

\* both limits are reached after an upload was refused and a job has ended
BothLimitsReached ==
    /\ Cardinality(in_progress) = CONCURRENCY_LIMIT
    /\ Len(queue) = QUEUE_LIMIT
    /\ uploads > Len(jobs)
    /\ \A th \in BagToSet(kb_threads) : th.pc \notin {"enqueue_wait", "enqueue_locked"}
    /\ \E j \in 1..Len(jobs) : jobs[j] \in {"completed", "failed"}
\* C30: for one issued PIN at most MAX_PIN_ATTEMPTS reset requests are compared
\* against the stored PIN, however the concurrent requests are scheduled, and
\* once that many were compared every further request is answered 429, without
\* a comparison, for as long as that PIN is stored.
PinAttemptsBounded ==
    [][ /\ compared' <= MAX_PIN_ATTEMPTS
        /\ (last_reset' # 0 /\ otp # Absent /\ compared = MAX_PIN_ATTEMPTS) =>
              (last_reset' = 429 /\ compared' = compared /\ otp' = otp) ]_vars

\* a request is refused after MAX_PIN_ATTEMPTS comparisons while others wait
RequestRefusedAfterMaxAttempts ==
    /\ last_reset = 429
    /\ compared = MAX_PIN_ATTEMPTS
    /\ otp # Absent
    /\ reset_handlers # EmptyBag
====
